---- MODULE Spec2Model ----
(***************************************************************************)
(* CS-2D-Data: instance generator (generator.cpp, instance.h) and          *)
(* difficulty estimator (difficulty_estimator.cpp/.h).                     *)
(*                                                                         *)
(* Number representation.  The program's doubles are modelled in fixed     *)
(* point: ratios, size_cv, demand_skew and peak_ratio of GeneratorParams   *)
(* are integers in percent (0.35 is 35); estimator weights are in          *)
(* hundredths; scores, instance features and RMSE values are in            *)
(* thousandths (1.2 is 1200).  static_cast<int> of a non-negative double   *)
(* is \div; of a possibly negative int quotient it is TruncDiv.            *)
(*                                                                         *)
(* Randomness.  std::mt19937 rng_ is modelled as a deterministic stream:   *)
(* a state, a step function and a reduction of the raw output to the       *)
(* requested range.  A seed of 0 takes the seed from the clock, which is   *)
(* a nondeterministic choice among ClockSeeds.                             *)
(***************************************************************************)
EXTENDS Integers, Sequences, FiniteSets, TLC

(***************************************************************************)
(* Bounds of the model                                                     *)
(***************************************************************************)
\* calls of Generate on one generator
MaxCalls == 2

\* constructor seeds; 0 takes the seed from the clock
MaxSeed == 2

Seeds == 0..MaxSeed

\* values the clock can supply when the seed is 0
ClockSeeds == {11, 12}

(***************************************************************************)
(* Arithmetic helpers                                                      *)
(***************************************************************************)
Min(a, b) == IF a < b THEN a ELSE b

Max(a, b) == IF a > b THEN a ELSE b

\* std::clamp(v, lo, hi)
Clamp(v, lo, hi) == IF v < lo THEN lo ELSE IF hi < v THEN hi ELSE v

\* C++ integer division truncates toward zero
TruncDiv(a, b) == IF a >= 0 THEN a \div b ELSE -((-a) \div b)

\* TLC computes the arguments of an operator on demand; a loop of the code
\* computes its state at the end of every iteration.  The guard is always
\* true and makes v computed where it stands.
Computed(v) == v = v

\* x * x <= n, for x >= 0 (46340 is the largest int whose square is an int)
SquareAtMost(x, n) == x <= 46340 /\ x * x <= n

\* the largest d in 0..63 with (base + d * step)^2 <= n, base^2 <= n
SqrtDigit(base, step, n) ==
    CHOOSE d \in 0..63 :
        /\ SquareAtMost(base + d * step, n)
        /\ d = 63 \/ ~SquareAtMost(base + (d + 1) * step, n)

\* static_cast<int>(std::sqrt(x)) for an integer x >= 0: the largest r with
\* r * r <= x, found digit by digit in base 64
ISqrt(n) ==
    LET hi == 4096 * SqrtDigit(0, 4096, n)
        mid == hi + 64 * SqrtDigit(hi, 64, n)
    IN  mid + SqrtDigit(mid, 1, n)

RECURSIVE IPow(_, _)
IPow(b, e) == IF e = 0 THEN 1 ELSE b * IPow(b, e - 1)

RECURSIVE SumSeq(_)
SumSeq(s) == IF s = <<>> THEN 0 ELSE Head(s) + SumSeq(Tail(s))

(***************************************************************************)
(* The random stream                                                       *)
(***************************************************************************)
RngModulus == 65537

RealRes == 16

\* rng_.seed(seed)
RngSeed(seed) == seed % RngModulus

\* one step of the engine; the new state is also the raw output
RngNext(s) == (s * 75 + 74) % RngModulus

\* std::uniform_int_distribution<int>(lo, hi)(rng_), lo <= hi
UniformInt(s, lo, hi) ==
    [val |-> lo + (RngNext(s) % (hi - lo + 1)), rng |-> RngNext(s)]

\* std::uniform_real_distribution<double>(0.0, 1.0)(rng_), as val / RealRes
UniformReal(s) ==
    [val |-> RngNext(s) % RealRes, rng |-> RngNext(s)]

(***************************************************************************)
(* generator.cpp: constants and GeneratorParams                            *)
(***************************************************************************)
kPrimes == <<7, 11, 13, 17, 19, 23, 29, 31, 37, 41, 43, 47>>

kNumPrimes == Len(kPrimes)

\* GeneratorParams::Validate
Validate(p) ==
    /\ ~(p.num_types < 3 \/ p.num_types > 200)
    /\ ~(p.stock_width < 50 \/ p.stock_length < 50)
    /\ ~(p.min_size_ratio < 1 \/ p.min_size_ratio > 50)
    /\ ~(p.max_size_ratio < p.min_size_ratio \/ p.max_size_ratio > 80)
    /\ ~(p.min_demand < 1 \/ p.max_demand < p.min_demand)
    /\ ~(p.size_cv < 0 \/ p.size_cv > 100)
    /\ ~(p.demand_skew < 0 \/ p.demand_skew > 100)
    /\ ~(p.strategy < 0 \/ p.strategy > 3)

(***************************************************************************)
(* Sampling primitives                                                     *)
(***************************************************************************)
\* the prime offset of GenerateItemSize: kPrimes[prime_idx(rng_)] *
\* (sign_dist(rng_) ? 1 : -1).  The two draws are operands of one
\* multiplication, so their order is fixed by the build (primeFirst).
PrimeOffset(rng, primeFirst) ==
    LET d1 == UniformInt(rng, 0, IF primeFirst THEN kNumPrimes - 1 ELSE 1)
        d2 == UniformInt(d1.rng, 0, IF primeFirst THEN 1 ELSE kNumPrimes - 1)
        idx == IF primeFirst THEN d1.val ELSE d2.val
        sgn == IF primeFirst THEN d2.val ELSE d1.val
    IN  [val |-> kPrimes[idx + 1] * (IF sgn # 0 THEN 1 ELSE -1), rng |-> d2.rng]

\* InstanceGenerator::GenerateItemSize(params, base_w, base_l).  The steps
\* of the function are operators that take what the steps before them drew.
GenerateItemSize(params, base_w, base_l, rng, primeFirst) ==
    LET W == params.stock_width
        L == params.stock_length
        \* stock_area * ratio, in hundredths of an area unit
        min_area100 == W * L * params.min_size_ratio
        max_area100 == W * L * params.max_size_ratio
        min_w == Max(5, Min(ISqrt(min_area100 \div 200), W - 1))
        max_w == Min(ISqrt((max_area100 * 2) \div 100), W)
        based == base_w > 0 /\ base_l > 0
        var_w == Max(3, (W * params.size_cv) \div 200)
        var_l == Max(3, (L * params.size_cv) \div 200)
        target_area_min == min_area100 \div 100
        target_area_max == max_area100 \div 100
        \* lines 526-528: ensure length >= width
        Oriented(w, l, r) ==
            IF l < w THEN [w |-> l, l |-> w, rng |-> r]
            ELSE [w |-> w, l |-> l, rng |-> r]
        \* lines 518-522: the prime offset off added to both sides
        Shifted(w, l, off) ==
            Oriented(Clamp(w + TruncDiv(off.val, 2), min_w, max_w),
                     Clamp(l + off.val, 5, L), off.rng)
        \* lines 517-530, after the draws dw of the width and dl of the length
        Drawn(dw, dl) ==
            CASE Computed(dl) ->
              IF params.prime_offset
              THEN Shifted(dw.val, dl.val, PrimeOffset(dl.rng, primeFirst))
              ELSE Oriented(dw.val, dl.val, dl.rng)
        \* lines 506-513: the length range and draw when there is no base size
        FreeLength(dw, l_min) ==
            UniformInt(dw.rng, l_min,
                       Max(l_min, Min(L, target_area_max \div dw.val)))
        \* lines 487-513, after the draw dw of the width
        WidthDrawn(dw) ==
            CASE Computed(dw) ->
              Drawn(dw, IF based
                        THEN UniformInt(dw.rng, Max(5, base_l - var_l),
                                                Min(L, base_l + var_l))
                        ELSE FreeLength(dw, Max(5, target_area_min \div dw.val)))
    IN  WidthDrawn(IF based
                   THEN UniformInt(rng, Max(min_w, base_w - var_w),
                                        Min(max_w, base_w + var_w))
                   ELSE UniformInt(rng, min_w, max_w))

\* InstanceGenerator::GeneratePrimeOffsetSize(stock_size, min_ratio, max_ratio)
GeneratePrimeOffsetSize(stock_size, min_ratio, max_ratio, rng) ==
    LET dd == UniformInt(rng, 3, 7)
        base == stock_size \div dd.val
        dp == UniformInt(dd.rng, 0, kNumPrimes - 1)
        prime == kPrimes[dp.val + 1]
        ds == UniformInt(dp.rng, 0, 1)
        sign == IF ds.val # 0 THEN 1 ELSE -1
        result == base + sign * prime
        min_size == (stock_size * min_ratio) \div 100
        max_size == (stock_size * max_ratio) \div 100
    IN  [val |-> Clamp(result, min_size, max_size), rng |-> ds.rng]

\* InstanceGenerator::GenerateDemand(params, is_peak).  The skewed branch
\* raises r to the power 1 + 2*demand_skew; the configurations of the model
\* keep that exponent an integer (demand_skew 0.5 or 1.0).
GenerateDemand(params, is_peak, rng) ==
    IF is_peak
    THEN LET dm == UniformInt(rng, 2, 4)
             db == UniformInt(dm.rng, params.min_demand, params.max_demand)
         IN  [val |-> Min(db.val * dm.val, 50), rng |-> db.rng]
    ELSE IF params.demand_skew < 1
    THEN UniformInt(rng, params.min_demand, params.max_demand)
    ELSE LET u == UniformReal(rng)
             e == (100 + 2 * params.demand_skew) \div 100
             range == params.max_demand - params.min_demand
         IN  [val |-> params.min_demand
                        + ((IPow(u.val, e) * range) \div IPow(RealRes, e)),
              rng |-> u.rng]

(***************************************************************************)
(* instance.h: Item and Instance                                           *)
(***************************************************************************)
MkItem(id, w, l, d) == [id |-> id, width |-> w, length |-> l, demand |-> d]

\* Instance::Instance()
NewInstance ==
    [stock_width |-> 0, stock_length |-> 0, items |-> <<>>, known_optimal |-> -1]

\* Instance::IsValid
IsValid(inst) ==
    /\ \A i \in 1..Len(inst.items) :
          LET item == inst.items[i]
          IN  /\ ~(item.width > inst.stock_width \/ item.length > inst.stock_length)
              /\ ~(item.width <= 0 \/ item.length <= 0 \/ item.demand <= 0)
    /\ inst.stock_width > 0 /\ inst.stock_length > 0 /\ inst.items # <<>>

(***************************************************************************)
(* Strategy 0: GenerateReverse                                             *)
(***************************************************************************)
\* lines 225-229: the base sizes, as a sequence of <<w, l>>
RECURSIVE BaseSizes(_, _, _, _)
BaseSizes(params, n, rng, primeFirst) ==
    LET Cons(s, rest) ==
            [sizes |-> <<(<<s.w, s.l>>)>> \o rest.sizes, rng |-> rest.rng]
        Sized(s) ==
            CASE Computed(s) ->
              Cons(s, BaseSizes(params, n - 1, s.rng, primeFirst))
    IN  IF n = 0 THEN [sizes |-> <<>>, rng |-> rng]
        ELSE Sized(GenerateItemSize(params, 0, 0, rng, primeFirst))

\* demand_map[key]++
MapIncr(dm, key) ==
    IF key \in DOMAIN dm THEN [dm EXCEPT ![key] = @ + 1]
    ELSE [k \in DOMAIN dm \cup {key} |-> IF k = key THEN 1 ELSE dm[k]]

\* the members of a set of integers, ascending
RECURSIVE AscSeq(_)
AscSeq(S) ==
    IF S = {} THEN <<>>
    ELSE LET m == CHOOSE x \in S : \A y \in S : x <= y
         IN  <<m>> \o AscSeq(S \ {m})

\* Stage 2 (lines 260-278): cut one strip of width strip_width along the
\* length; st is [rng, dm] with dm the demand_map
RECURSIVE Stage2(_, _, _, _)
Stage2(base_sizes, strip_width, remaining_length, st) ==
    IF ~(remaining_length > 0) THEN st
    ELSE LET Fits(i) == /\ base_sizes[i][1] = strip_width
                        /\ base_sizes[i][2] <= remaining_length
             valid_types == AscSeq({i \in 1..Len(base_sizes) : Fits(i)})
         IN  IF valid_types = <<>> THEN st
             ELSE LET d == UniformInt(st.rng, 0, Len(valid_types) - 1)
                      picked == valid_types[d.val + 1]
                      next == [rng |-> d.rng,
                               dm |-> MapIncr(st.dm, base_sizes[picked])]
                  IN  CASE Computed(next) ->
                        Stage2(base_sizes, strip_width,
                               remaining_length - base_sizes[picked][2], next)

\* Stage 1 (lines 239-281): cut strips across the width of one stock
RECURSIVE Stage1(_, _, _, _)
Stage1(params, base_sizes, remaining_width, st) ==
    IF ~(remaining_width > 0) THEN st
    ELSE LET d == UniformInt(st.rng, 0, params.num_types - 1)
             type_idx == d.val + 1
             Feasible(i) == base_sizes[i][1] <= remaining_width
             feasible == AscSeq({i \in 1..params.num_types : Feasible(i)})
             tooWide == base_sizes[type_idx][1] > remaining_width
             strip_width == IF tooWide THEN base_sizes[feasible[1]][1]
                            ELSE base_sizes[type_idx][1]
         IN  IF tooWide /\ feasible = <<>> THEN [rng |-> d.rng, dm |-> st.dm]
             ELSE LET next == Stage2(base_sizes, strip_width, params.stock_length,
                                     [rng |-> d.rng, dm |-> st.dm])
                  IN  CASE Computed(next) ->
                        Stage1(params, base_sizes,
                               remaining_width - strip_width, next)

\* lines 235-282: the greedy filling of num_stocks stocks
RECURSIVE FillStocks(_, _, _, _)
FillStocks(params, base_sizes, s, st) ==
    IF s = 0 THEN st
    ELSE LET next == Stage1(params, base_sizes, params.stock_width, st)
         IN  CASE Computed(next) -> FillStocks(params, base_sizes, s - 1, next)

\* the keys of a std::map / std::set of pairs, in iteration (lexicographic) order
PairLess(a, b) == a[1] < b[1] \/ (a[1] = b[1] /\ a[2] < b[2])

RECURSIVE SortedPairs(_)
SortedPairs(S) ==
    IF S = {} THEN <<>>
    ELSE LET m == CHOOSE x \in S : \A y \in S \ {x} : PairLess(x, y)
         IN  <<m>> \o SortedPairs(S \ {m})

\* the padding loop without the reset of known_optimal
RECURSIVE PadReverse_KeepOptimal(_, _, _, _)
PadReverse_KeepOptimal(params, inst, rng, primeFirst) ==
    LET Sized(s) ==
            PadReverse_KeepOptimal(params,
                [inst EXCEPT !.items = Append(@, MkItem(Len(inst.items),
                                                        s.w, s.l, 1))],
                s.rng, primeFirst)
    IN  IF ~(Len(inst.items) < 3) THEN [inst |-> inst, rng |-> rng]
        ELSE Sized(GenerateItemSize(params, 0, 0, rng, primeFirst))

\* lines 298-307: pad to three items; known_optimal becomes -1
RECURSIVE PadReverse(_, _, _, _)
PadReverse(params, inst, rng, primeFirst) ==
    LET Sized(s) ==
            PadReverse(params,
                [inst EXCEPT !.items = Append(@, MkItem(Len(inst.items),
                                                        s.w, s.l, 1)),
                             !.known_optimal = -1],
                s.rng, primeFirst)
    IN  IF ~(Len(inst.items) < 3) THEN [inst |-> inst, rng |-> rng]
        ELSE Sized(GenerateItemSize(params, 0, 0, rng, primeFirst))

\* GenerateReverse with the filling loop running one stock too many
GenerateReverse_OneMoreStock(params, rng, primeFirst) ==
    LET \* line 309, n the number of items before the padding
        Padded(p, n) ==
            CASE Computed(p) ->
              [inst |-> p.inst, rng |-> p.rng, padded |-> Len(p.inst.items) - n]
        \* lines 284-307: the items from demand_map dm in key order
        Mapped(num_stocks, keys, dm, r) ==
            Padded(PadReverse(params,
                       [stock_width |-> params.stock_width,
                        stock_length |-> params.stock_length,
                        items |-> [i \in 1..Len(keys) |->
                                     MkItem(i - 1, keys[i][1], keys[i][2],
                                            dm[keys[i]])],
                        known_optimal |-> num_stocks],
                       r, primeFirst),
                   Len(keys))
        Filled(num_stocks, filled) ==
            CASE Computed(filled) ->
              Mapped(num_stocks,
                     SortedPairs({k \in DOMAIN filled.dm : filled.dm[k] > 0}),
                     filled.dm, filled.rng)
        \* lines 232-282, bs being the base sizes and the stream after them
        Based(num_stocks, bs) ==
            CASE Computed(bs) ->
              Filled(num_stocks,
                     FillStocks(params, bs.sizes, num_stocks + 1,
                                [rng |-> bs.rng, dm |-> <<>>]))
        \* lines 221-229, after the draw dk of num_stocks_dist
        Counted(dk) ==
            Based(dk.val, BaseSizes(params, params.num_types, dk.rng, primeFirst))
    IN  Counted(UniformInt(rng, 3, 8))

\* InstanceGenerator::GenerateReverse: the instance, the stream after it and
\* the number of items the padding loop appended
GenerateReverse(params, rng, primeFirst) ==
    LET \* line 309, n the number of items before the padding
        Padded(p, n) ==
            CASE Computed(p) ->
              [inst |-> p.inst, rng |-> p.rng, padded |-> Len(p.inst.items) - n]
        \* lines 284-307: the items from demand_map dm in key order
        Mapped(num_stocks, keys, dm, r) ==
            Padded(PadReverse(params,
                       [stock_width |-> params.stock_width,
                        stock_length |-> params.stock_length,
                        items |-> [i \in 1..Len(keys) |->
                                     MkItem(i - 1, keys[i][1], keys[i][2],
                                            dm[keys[i]])],
                        known_optimal |-> num_stocks],
                       r, primeFirst),
                   Len(keys))
        Filled(num_stocks, filled) ==
            CASE Computed(filled) ->
              Mapped(num_stocks,
                     SortedPairs({k \in DOMAIN filled.dm : filled.dm[k] > 0}),
                     filled.dm, filled.rng)
        \* lines 232-282, bs being the base sizes and the stream after them
        Based(num_stocks, bs) ==
            CASE Computed(bs) ->
              Filled(num_stocks,
                     FillStocks(params, bs.sizes, num_stocks,
                                [rng |-> bs.rng, dm |-> <<>>]))
        \* lines 221-229, after the draw dk of num_stocks_dist
        Counted(dk) ==
            Based(dk.val, BaseSizes(params, params.num_types, dk.rng, primeFirst))
    IN  Counted(UniformInt(rng, 3, 8))

(***************************************************************************)
(* Strategy 1: GenerateRandom                                              *)
(***************************************************************************)
max_attempts == 50

\* lines 330-335: one iteration of the do-while that looks for an unused
\* size; t is [w, l, attempts, rng, again], again being the loop condition
RandomTry(params, used_sizes, t, primeFirst) ==
    LET Sized(s, a) ==
            [w |-> s.w, l |-> s.l, attempts |-> a, rng |-> s.rng,
             again |-> <<s.w, s.l>> \in used_sizes /\ a < max_attempts]
    IN  IF ~t.again THEN t
        ELSE Sized(GenerateItemSize(params, 0, 0, t.rng, primeFirst),
                   t.attempts + 1)

\* n consecutive iterations of the do-while, as two halves
RECURSIVE RandomTries(_, _, _, _, _)
RandomTries(params, used_sizes, t, n, primeFirst) ==
    IF n = 1 THEN RandomTry(params, used_sizes, t, primeFirst)
    ELSE LET half == RandomTries(params, used_sizes, t, n \div 2, primeFirst)
         IN  CASE Computed(half) ->
               RandomTries(params, used_sizes, half, n - n \div 2, primeFirst)

\* lines 330-335: the do-while; the condition fails at the latest after
\* max_attempts iterations
RandomAttempt(params, used_sizes, rng, primeFirst) ==
    RandomTries(params, used_sizes,
                [w |-> 0, l |-> 0, attempts |-> 0, rng |-> rng, again |-> TRUE],
                max_attempts, primeFirst)

\* the type skipped only when the last sampled size is a used one
RandomType_KeepLast(used_sizes, sizes) ==
    LET Again(i) == sizes[i] \in used_sizes /\ i < max_attempts
        attempts == CHOOSE i \in 1..max_attempts :
                        /\ ~Again(i)
                        /\ \A j \in 1..(i - 1) : Again(j)
    IN  [attempts |-> attempts, w |-> sizes[attempts][1], l |-> sizes[attempts][2],
         added |-> ~(sizes[attempts] \in used_sizes)]

\* lines 326-340 for one type, sizes being what the successive calls of
\* GenerateItemSize return: the do-while ends with the first iteration
\* whose condition (the size is used and attempts < max_attempts) fails,
\* and line 337 skips the type when attempts reached max_attempts
RandomType(used_sizes, sizes) ==
    LET Again(i) == sizes[i] \in used_sizes /\ i < max_attempts
        attempts == CHOOSE i \in 1..max_attempts :
                        /\ ~Again(i)
                        /\ \A j \in 1..(i - 1) : Again(j)
    IN  [attempts |-> attempts, w |-> sizes[attempts][1], l |-> sizes[attempts][2],
         added |-> ~(attempts >= max_attempts)]

\* lines 324-346: st is [items, used, rng]
RECURSIVE RandomLoop(_, _, _, _, _)
RandomLoop(params, i, num_peak, st, primeFirst) ==
    LET \* lines 338-345: the item with the size of r and the demand d
        Added(r, d) ==
            RandomLoop(params, i + 1, num_peak,
                       [items |-> Append(st.items, MkItem(i, r.w, r.l, d.val)),
                        used |-> st.used \cup {<<r.w, r.l>>},
                        rng |-> d.rng], primeFirst)
        \* lines 337-345, r being the state the do-while ended in
        Tried(r) ==
            IF r.attempts >= max_attempts
            THEN RandomLoop(params, i + 1, num_peak,
                            [st EXCEPT !.rng = r.rng], primeFirst)
            ELSE Added(r, GenerateDemand(params, i < num_peak, r.rng))
    IN  IF ~(i < params.num_types) THEN st
        ELSE Tried(RandomAttempt(params, st.used, st.rng, primeFirst))

\* the ids left as the loops assigned them
Renumber_Keep(items) == items

\* lines 349-351 and 606-608: items[i].id = i
Renumber(items) == [i \in 1..Len(items) |-> [items[i] EXCEPT !.id = i - 1]]

\* InstanceGenerator::GenerateRandom
GenerateRandom(params, rng, primeFirst) ==
    LET num_peak == TruncDiv(params.num_types * params.peak_ratio, 100)
        \* lines 348-353, st being the state the loop ended in
        Looped(st) ==
            [inst |-> [stock_width |-> params.stock_width,
                       stock_length |-> params.stock_length,
                       items |-> Renumber(st.items),
                       known_optimal |-> -1],
             rng |-> st.rng]
    IN  Looped(RandomLoop(params, 0, num_peak,
                          [items |-> <<>>, used |-> {}, rng |-> rng], primeFirst))

(***************************************************************************)
(* Strategy 2: GenerateCluster                                             *)
(***************************************************************************)
cluster_attempts == 30

\* lines 401-410: one iteration of the do-while around one cluster centre;
\* c is [params, center_w, center_l, var_w, var_l, used], t is
\* [w, l, attempts, rng, again], again being the loop condition
ClusterTry(c, t) ==
    LET Sized(w, l, a, r) ==
            [w |-> w, l |-> l, attempts |-> a, rng |-> r,
             again |-> <<w, l>> \in c.used /\ a < cluster_attempts]
        Drawn(dw, dl) ==
            Sized(Min(dw.val, c.params.stock_width),
                  Min(dl.val, c.params.stock_length), t.attempts + 1, dl.rng)
        WidthDrawn(dw) ==
            Drawn(dw, UniformInt(dw.rng, Max(1, c.center_l - c.var_l),
                                 c.center_l + c.var_l))
    IN  IF ~t.again THEN t
        ELSE WidthDrawn(UniformInt(t.rng, Max(1, c.center_w - c.var_w),
                                   c.center_w + c.var_w))

\* n consecutive iterations of the do-while, as two halves
RECURSIVE ClusterTries(_, _, _)
ClusterTries(c, t, n) ==
    IF n = 1 THEN ClusterTry(c, t)
    ELSE LET half == ClusterTries(c, t, n \div 2)
         IN  CASE Computed(half) -> ClusterTries(c, half, n - n \div 2)

\* lines 401-410: the do-while; the condition fails at the latest after
\* cluster_attempts iterations
ClusterAttempt(params, center_w, center_l, var_w, var_l, used_sizes, rng) ==
    ClusterTries([params |-> params, center_w |-> center_w, center_l |-> center_l,
                  var_w |-> var_w, var_l |-> var_l, used |-> used_sizes],
                 [w |-> 0, l |-> 0, attempts |-> 0, rng |-> rng, again |-> TRUE],
                 cluster_attempts)

\* lines 397-421: the members of one cluster; st is [items, used, rng]
RECURSIVE ClusterMembers(_, _, _, _)
ClusterMembers(params, center, n, st) ==
    LET var_w == Max(5, (params.stock_width * params.size_cv * 3) \div 1000)
        var_l == Max(5, (params.stock_length * params.size_cv * 3) \div 1000)
        \* lines 413-420: the item with the size of r and the demand d
        Added(r, d) ==
            ClusterMembers(params, center, n - 1,
                           [items |-> Append(st.items,
                                        MkItem(Len(st.items), r.w, r.l, d.val)),
                            used |-> st.used \cup {<<r.w, r.l>>},
                            rng |-> d.rng])
        \* lines 412-420, r being the state the do-while ended in
        Tried(r) ==
            IF r.attempts >= cluster_attempts
            THEN ClusterMembers(params, center, n - 1, [st EXCEPT !.rng = r.rng])
            ELSE Added(r, GenerateDemand(params, FALSE, r.rng))
    IN  IF n = 0 THEN st
        ELSE Tried(ClusterAttempt(params, center[1], center[2], var_w, var_l,
                                  st.used, st.rng))

\* lines 387-422: cluster c (0-based) of num_clusters
RECURSIVE ClusterLoop(_, _, _, _, _)
ClusterLoop(params, centers, num_clusters, c, st) ==
    LET per_cluster == params.num_types \div num_clusters
        remainder == params.num_types % num_clusters
        cluster_size == per_cluster + (IF c < remainder THEN 1 ELSE 0)
        Clustered(next) ==
            CASE Computed(next) ->
              ClusterLoop(params, centers, num_clusters, c + 1, next)
    IN  IF ~(c < num_clusters) THEN st
        ELSE Clustered(ClusterMembers(params, centers[c + 1], cluster_size, st))

\* InstanceGenerator::GenerateCluster
GenerateCluster(params, rng, primeFirst) ==
    LET \* line 424, st being the state the loop over the clusters ended in
        Looped(st) ==
            CASE Computed(st) ->
              [inst |-> [stock_width |-> params.stock_width,
                         stock_length |-> params.stock_length,
                         items |-> st.items,
                         known_optimal |-> -1],
               rng |-> st.rng]
        \* lines 380-422, centers being the cluster centres and the stream
        \* after them
        Centred(num_clusters, centers) ==
            CASE Computed(centers) ->
              Looped(ClusterLoop(params, centers.sizes, num_clusters, 0,
                                 [items |-> <<>>, used |-> {},
                                  rng |-> centers.rng]))
        \* lines 374-378: the cluster centres
        Counted(num_clusters, r) ==
            Centred(num_clusters, BaseSizes(params, num_clusters, r, primeFirst))
        Drawn(dc) == Counted(dc.val, dc.rng)
    IN  IF params.num_clusters <= 0 THEN Drawn(UniformInt(rng, 3, 5))
        ELSE Counted(params.num_clusters, rng)

(***************************************************************************)
(* Strategy 3: GenerateResidual                                            *)
(***************************************************************************)
residual_attempts == 20

\* lines 447-451: one iteration of the while that nudges a repeated size;
\* t is [w, l, attempts]
NudgeStep(t, W, L, used_sizes) ==
    IF <<t.w, t.l>> \in used_sizes /\ t.attempts < residual_attempts
    THEN [w |-> Min(t.w + 1, W), l |-> Min(t.l + 1, L), attempts |-> t.attempts + 1]
    ELSE t

\* n consecutive iterations of the while, as two halves
RECURSIVE NudgeSteps(_, _, _, _, _)
NudgeSteps(t, W, L, used_sizes, n) ==
    IF n = 1 THEN NudgeStep(t, W, L, used_sizes)
    ELSE LET half == NudgeSteps(t, W, L, used_sizes, n \div 2)
         IN  CASE Computed(half) -> NudgeSteps(half, W, L, used_sizes, n - n \div 2)

\* lines 446-451: the while; it ends at the latest after residual_attempts
\* iterations
Nudge(w, l, W, L, used_sizes) ==
    LET t == NudgeSteps([w |-> w, l |-> l, attempts |-> 0], W, L, used_sizes,
                        residual_attempts)
    IN  <<t.w, t.l>>

\* lines 440-462: st is [items, used, rng]
RECURSIVE ResidualLoop(_, _, _)
ResidualLoop(params, i, st) ==
    LET W == params.stock_width
        L == params.stock_length
        \* lines 453-461: the item of size size and demand d
        Added(size, d) ==
            ResidualLoop(params, i + 1,
                         [items |-> Append(st.items,
                                      MkItem(Len(st.items), size[1], size[2], d.val)),
                          used |-> st.used \cup {size},
                          rng |-> d.rng])
        \* lines 452-461, size being the size after the while, r the stream
        Nudged(size, r) ==
            IF size \in st.used
            THEN ResidualLoop(params, i + 1, [st EXCEPT !.rng = r])
            ELSE Added(size, GenerateDemand(params, FALSE, r))
        \* lines 446-451, after the draws gw and gl of the two sides
        Drawn(gw, gl) == Nudged(Nudge(gw.val, gl.val, W, L, st.used), gl.rng)
        \* line 443
        WidthDrawn(gw) ==
            Drawn(gw, GeneratePrimeOffsetSize(L, params.min_size_ratio,
                                              params.max_size_ratio, gw.rng))
    IN  IF ~(i < params.num_types) THEN st
        ELSE WidthDrawn(GeneratePrimeOffsetSize(W, params.min_size_ratio,
                                                params.max_size_ratio, st.rng))

\* InstanceGenerator::GenerateResidual
GenerateResidual(params, rng) ==
    LET \* line 464, st being the state the loop ended in
        Looped(st) ==
            [inst |-> [stock_width |-> params.stock_width,
                       stock_length |-> params.stock_length,
                       items |-> st.items,
                       known_optimal |-> -1],
             rng |-> st.rng]
    IN  Looped(ResidualLoop(params, 0,
                            [items |-> <<>>, used |-> {}, rng |-> rng]))

(***************************************************************************)
(* ValidateAndFix                                                          *)
(***************************************************************************)
\* lines 585-592: std::remove_if + erase
RemoveInvalid(inst) ==
    LET Bad(item) == \/ item.width <= 0 \/ item.length <= 0
                     \/ item.demand <= 0
                     \/ item.width > inst.stock_width
                     \/ item.length > inst.stock_length
    IN  SelectSeq(inst.items, LAMBDA item : ~Bad(item))

\* lines 595-603: add items until there are three
RECURSIVE Repair(_, _, _, _)
Repair(params, inst, rng, primeFirst) ==
    LET Added(s, d) ==
            Repair(params,
                   [inst EXCEPT !.items =
                       Append(@, MkItem(Len(inst.items),
                                        Min(s.w, inst.stock_width),
                                        Min(s.l, inst.stock_length), d.val))],
                   d.rng, primeFirst)
        Sized(s) == Added(s, GenerateDemand(params, FALSE, s.rng))
    IN  IF ~(Len(inst.items) < 3) THEN [inst |-> inst, rng |-> rng]
        ELSE Sized(GenerateItemSize(params, 0, 0, rng, primeFirst))

\* ValidateAndFix without the loop that restores three items
ValidateAndFix_NoRepair(inst, params, rng, primeFirst) ==
    LET Fixed(kept, out) ==
            [inst |-> out, rng |-> rng, ok |-> IsValid(out),
             removed |-> Len(inst.items) - Len(kept.items),
             added |-> 0]
        Kept(kept) == Fixed(kept, [kept EXCEPT !.items = Renumber(@)])
    IN  Kept([inst EXCEPT !.items = RemoveInvalid(inst)])

\* InstanceGenerator::ValidateAndFix: the fixed instance, the stream after
\* it and the boolean result
ValidateAndFix(inst, params, rng, primeFirst) ==
    LET \* lines 605-610: the renumbered instance out and the result
        Fixed(kept, out, r) ==
            [inst |-> out, rng |-> r, ok |-> IsValid(out),
             removed |-> Len(inst.items) - Len(kept.items),
             added |-> Len(out.items) - Len(kept.items)]
        Repaired(kept, fixed) ==
            Fixed(kept, [fixed.inst EXCEPT !.items = Renumber(@)], fixed.rng)
        \* lines 594-603, kept being the instance without the invalid items
        Kept(kept) == Repaired(kept, Repair(params, kept, rng, primeFirst))
    IN  Kept([inst EXCEPT !.items = RemoveInvalid(inst)])

(***************************************************************************)
(* instance.h: statistics (results in thousandths)                         *)
(***************************************************************************)
Area(item) == item.width * item.length

StockArea(inst) == inst.stock_width * inst.stock_length

NumTypes(inst) == Len(inst.items)

TotalDemand(inst) == SumSeq([i \in 1..Len(inst.items) |-> inst.items[i].demand])

TotalDemandArea(inst) ==
    SumSeq([i \in 1..Len(inst.items) |-> Area(inst.items[i]) * inst.items[i].demand])

\* Instance::AvgSizeRatio (AvgItemArea / StockArea)
AvgSizeRatio(inst) ==
    IF StockArea(inst) = 0 \/ inst.items = <<>> THEN 0
    ELSE (SumSeq([i \in 1..Len(inst.items) |-> Area(inst.items[i])]) * 1000)
            \div (Len(inst.items) * StockArea(inst))

\* Instance::AvgDemand
AvgDemand(inst) ==
    IF inst.items = <<>> THEN 0
    ELSE (TotalDemand(inst) * 1000) \div Len(inst.items)

\* squared coefficient of variation of a sequence (sample variance over the
\* squared mean), in thousandths; 0 when the mean is not positive
CvSquared(xs) ==
    LET n == Len(xs)
        sum == SumSeq(xs)
        sumsq == SumSeq([i \in 1..n |-> xs[i] * xs[i]])
    IN  IF sum > 0
        THEN (n * (n * sumsq - sum * sum) * 1000) \div ((n - 1) * sum * sum)
        ELSE 0

\* Instance::SizeCV
SizeCV(inst) ==
    IF Len(inst.items) < 2 THEN 0
    ELSE LET cw2 == CvSquared([i \in 1..Len(inst.items) |-> inst.items[i].width])
             cl2 == CvSquared([i \in 1..Len(inst.items) |-> inst.items[i].length])
         IN  ISqrt(((cw2 + cl2) \div 2) * 1000)

\* Instance::NumUniqueWidths
NumUniqueWidths(inst) ==
    Cardinality({inst.items[i].width : i \in 1..Len(inst.items)})

\* Instance::WidthDiversity
WidthDiversity(inst) ==
    IF inst.items = <<>> THEN 0
    ELSE (NumUniqueWidths(inst) * 1000) \div Len(inst.items)

(***************************************************************************)
(* difficulty_estimator.cpp                                                *)
(***************************************************************************)
kTrivial == 0

kEasy == 1

kMedium == 2

kHard == 3

kVeryHard == 4

kExpert == 5

\* DifficultyEstimator::DifficultyEstimator: the default weights, in hundredths
DefaultWeights ==
    [size_ratio |-> 35, num_types |-> 25, demand |-> 20, cv |-> 15, width_div |-> 5]

\* DifficultyEstimator::ScoreToLevel
ScoreToLevel(score) ==
    IF score < 500 THEN kTrivial
    ELSE IF score < 800 THEN kEasy
    ELSE IF score < 1200 THEN kMedium
    ELSE IF score < 1600 THEN kHard
    ELSE IF score < 2000 THEN kVeryHard
    ELSE kExpert

\* EstimateGapString with the first breakpoint made inclusive
EstimateGapString_Inclusive(score) ==
    IF score <= 500 THEN "<1%"
    ELSE IF score < 800 THEN "1-3%"
    ELSE IF score < 1200 THEN "3-8%"
    ELSE IF score < 1600 THEN "8-15%"
    ELSE IF score < 2000 THEN "15-25%"
    ELSE ">25%"

\* DifficultyEstimator::EstimateGapString
EstimateGapString(score) ==
    IF score < 500 THEN "<1%"
    ELSE IF score < 800 THEN "1-3%"
    ELSE IF score < 1200 THEN "3-8%"
    ELSE IF score < 1600 THEN "8-15%"
    ELSE IF score < 2000 THEN "15-25%"
    ELSE ">25%"

\* DifficultyEstimator::EstimateNodes
EstimateNodes(score) ==
    IF score < 500 THEN 10
    ELSE IF score < 800 THEN 50
    ELSE IF score < 1200 THEN 300
    ELSE IF score < 1600 THEN 1000
    ELSE IF score < 2000 THEN 5000
    ELSE 10000

\* the weighted sum of five contributions given in thousandths
WeightedSum(w, f_size, f_types, f_demand, f_cv, f_width) ==
    (w.size_ratio * f_size + w.num_types * f_types + w.demand * f_demand
        + w.cv * f_cv + w.width_div * f_width) \div 100

\* ComputeScore with the size_cv factor inverted (0.30 / size_cv)
ComputeScore_InvertedCv(w, size_ratio, num_types, avg_demand, size_cv, width_diversity) ==
    LET f_size == size_ratio * 5
        f_types == (num_types * 1000) \div 30
        f_demand == IF avg_demand > 0 THEN 5000000 \div avg_demand ELSE 2000
        f_cv == IF size_cv > 0 THEN 300000 \div size_cv ELSE 0
        f_width == width_diversity
    IN  WeightedSum(w, f_size, f_types, f_demand, f_cv, f_width)

\* ComputeScore with the demand factor inverted (avg_demand / 5.0)
ComputeScore_InvertedDemand(w, size_ratio, num_types, avg_demand, size_cv, width_diversity) ==
    LET f_size == size_ratio * 5
        f_types == (num_types * 1000) \div 30
        f_demand == IF avg_demand > 0 THEN avg_demand \div 5 ELSE 2000
        f_cv == (size_cv * 10) \div 3
        f_width == width_diversity
    IN  WeightedSum(w, f_size, f_types, f_demand, f_cv, f_width)

\* DifficultyEstimator::ComputeScore
ComputeScore(w, size_ratio, num_types, avg_demand, size_cv, width_diversity) ==
    LET f_size == size_ratio * 5
        f_types == (num_types * 1000) \div 30
        f_demand == IF avg_demand > 0 THEN 5000000 \div avg_demand ELSE 2000
        f_cv == (size_cv * 10) \div 3
        f_width == width_diversity
    IN  WeightedSum(w, f_size, f_types, f_demand, f_cv, f_width)

\* the largest value of int
IntMax == 2147483647

\* a * b leaves the range of int (a, b positive)
IntOverflows(a, b) == a > 0 /\ b > 0 /\ a > IntMax \div b

\* a * b on int operands (line 71, lb_plates * inst.StockArea()): the
\* product where it fits, and the product less 2^32 where it lies between
\* 2^31 and 2^32, as two's-complement multiplication leaves it
IntTimes(a, b) ==
    IF ~IntOverflows(a, b) THEN a * b
    ELSE LET k == IntMax \div b
             excess == (a - k) * b - (IntMax % b)    \* a * b - IntMax
         IN  (excess - 1) - IntMax - 1

\* n * d as q * m + r with 0 <= r < m, for 0 <= d < m, without leaving int
RECURSIVE TimesMod(_, _, _)
TimesMod(n, d, m) ==
    IF n = 0 THEN [q |-> 0, r |-> 0]
    ELSE LET t == TimesMod(n - 1, d, m)
         IN  IF t.r >= m - d THEN [q |-> t.q + 1, r |-> t.r - (m - d)]
             ELSE [q |-> t.q, r |-> t.r + d]

\* static_cast<double>(x) / p in thousandths (rounded down), for x >= 0 and
\* p # 0, digit by digit so that no intermediate value leaves int
Thousandths(x, p) ==
    LET m == IF p > 0 THEN p ELSE 0 - p
        t1 == TimesMod(10, x % m, m)
        t2 == TimesMod(10, t1.r, m)
        t3 == TimesMod(10, t2.r, m)
        down == 1000 * (x \div m) + 100 * t1.q + 10 * t2.q + t3.q
    IN  IF p > 0 THEN down
        ELSE IF t3.r = 0 THEN 0 - down
        ELSE 0 - down - 1

\* Estimate with a demand contribution of 0 when avg_demand is not positive
Estimate_NoDemandFloor(w, inst) ==
    LET size_ratio == AvgSizeRatio(inst)
        num_types == NumTypes(inst)
        avg_demand == AvgDemand(inst)
        size_cv == SizeCV(inst)
        width_div == WidthDiversity(inst)
        size_contribution == size_ratio * 5
        types_contribution == (num_types * 1000) \div 30
        demand_contribution == IF avg_demand > 0 THEN 5000000 \div avg_demand
                               ELSE 0
        cv_contribution == (size_cv * 10) \div 3
        width_div_contribution == width_div
        score == WeightedSum(w, size_contribution, types_contribution,
                             demand_contribution, cv_contribution,
                             width_div_contribution)
        sa == StockArea(inst)
        tda == TotalDemandArea(inst)
        \* static_cast<int>(std::ceil(TheoreticalLowerBound())), read only
        \* where the stock area is positive
        lb_plates == IF sa > 0
                     THEN tda \div sa + (IF tda % sa > 0 THEN 1 ELSE 0)
                     ELSE 0
    IN  [score |-> score,
         level |-> ScoreToLevel(score),
         estimated_gap |-> EstimateGapString(score),
         estimated_nodes |-> EstimateNodes(score),
         utilization_lb |-> IF lb_plates > 0 /\ sa > 0
                            THEN Thousandths(tda, IntTimes(lb_plates, sa))
                            ELSE 0,
         size_contribution |-> size_contribution,
         types_contribution |-> types_contribution,
         demand_contribution |-> demand_contribution,
         cv_contribution |-> cv_contribution,
         width_div_contribution |-> width_div_contribution]

\* DifficultyEstimator::Estimate
Estimate(w, inst) ==
    LET size_ratio == AvgSizeRatio(inst)
        num_types == NumTypes(inst)
        avg_demand == AvgDemand(inst)
        size_cv == SizeCV(inst)
        width_div == WidthDiversity(inst)
        size_contribution == size_ratio * 5
        types_contribution == (num_types * 1000) \div 30
        demand_contribution == IF avg_demand > 0 THEN 5000000 \div avg_demand
                               ELSE 2000
        cv_contribution == (size_cv * 10) \div 3
        width_div_contribution == width_div
        score == WeightedSum(w, size_contribution, types_contribution,
                             demand_contribution, cv_contribution,
                             width_div_contribution)
        sa == StockArea(inst)
        tda == TotalDemandArea(inst)
        \* static_cast<int>(std::ceil(TheoreticalLowerBound())), read only
        \* where the stock area is positive
        lb_plates == IF sa > 0
                     THEN tda \div sa + (IF tda % sa > 0 THEN 1 ELSE 0)
                     ELSE 0
    IN  [score |-> score,
         level |-> ScoreToLevel(score),
         estimated_gap |-> EstimateGapString(score),
         estimated_nodes |-> EstimateNodes(score),
         utilization_lb |-> IF lb_plates > 0 /\ sa > 0
                            THEN Thousandths(tda, IntTimes(lb_plates, sa))
                            ELSE 0,
         size_contribution |-> size_contribution,
         types_contribution |-> types_contribution,
         demand_contribution |-> demand_contribution,
         cv_contribution |-> cv_contribution,
         width_div_contribution |-> width_div_contribution]

\* the features of a CalibrationPoint or of a direct ComputeScore call
ScoreOf(w, f) ==
    ComputeScore(w, f.avg_size_ratio, f.num_types, f.avg_demand, f.size_cv,
                 f.width_diversity)

\* DifficultyEstimator::GetPredictionRMSE, for weights w and dataset data
\* (actual_gap in thousandths, so actual_gap * 10.0 is a score in thousandths)
GetPredictionRMSE(w, data) ==
    IF data = <<>> THEN 0
    ELSE LET err(i) == ScoreOf(w, data[i]) - data[i].actual_gap * 10
             sum_sq_error == SumSeq([i \in 1..Len(data) |-> err(i) * err(i)])
         IN  ISqrt(sum_sq_error \div Len(data))

\* The loop counters w1, w2, w3 are doubles that start at 0.20, 0.15, 0.10
\* and grow by += 0.05, and line 160 computes w4 = 1.0 - w1 - w2 - w3 - 0.05
\* from them.  For these (w1, w2, w3), in hundredths, IEEE-754 double
\* arithmetic gives 0.0499999999999999... or 0.3000000000000000(4|1) where
\* the exact value is 0.05 or 0.30, so that the test of line 161 drops the
\* tuple; everywhere else the test decides as on the exact values.
RoundedOut ==
    {<<20, 15, 30>>, <<20, 20, 25>>, <<20, 25, 20>>, <<20, 35, 10>>,
     <<25, 20, 20>>, <<30, 30, 30>>, <<30, 35, 25>>, <<30, 40, 20>>,
     <<40, 15, 10>>, <<50, 15, 25>>, <<50, 20, 20>>, <<50, 25, 15>>}

\* the loop over w3 with w5 set to what w1, w2, w3 leave, w4 not deducted
RECURSIVE LoopW3_NoReserve(_, _, _, _, _)
LoopW3_NoReserve(data, w1, w2, w3, best) ==
    IF ~(w3 <= 30) THEN best
    ELSE LET w4 == 100 - w1 - w2 - w3 - 5
             w5 == 100 - w1 - w2 - w3
             t == [size_ratio |-> w1, num_types |-> w2, demand |-> w3,
                   cv |-> w4, width_div |-> w5]
             rmse == GetPredictionRMSE(t, data)
         IN  IF w4 < 5 \/ w4 > 30 \/ <<w1, w2, w3>> \in RoundedOut
             THEN LoopW3_NoReserve(data, w1, w2, w3 + 5, best)
             ELSE IF rmse < best.rmse
             THEN LoopW3_NoReserve(data, w1, w2, w3 + 5, [w |-> t, rmse |-> rmse])
             ELSE LoopW3_NoReserve(data, w1, w2, w3 + 5, best)

\* lines 159-180: the loop over w3 for given w1, w2; best is [w, rmse].
\* The loop counters are written as the multiples of 0.05, in hundredths,
\* that they stand for; each of the 7 x 6 x 5 iterations is run.
RECURSIVE LoopW3(_, _, _, _, _)
LoopW3(data, w1, w2, w3, best) ==
    IF ~(w3 <= 30) THEN best
    ELSE LET w4 == 100 - w1 - w2 - w3 - 5
             w5 == 100 - w1 - w2 - w3 - w4
             t == [size_ratio |-> w1, num_types |-> w2, demand |-> w3,
                   cv |-> w4, width_div |-> w5]
             rmse == GetPredictionRMSE(t, data)
         IN  IF w4 < 5 \/ w4 > 30 \/ <<w1, w2, w3>> \in RoundedOut
             THEN LoopW3(data, w1, w2, w3 + 5, best)
             ELSE IF rmse < best.rmse
             THEN LoopW3(data, w1, w2, w3 + 5, [w |-> t, rmse |-> rmse])
             ELSE LoopW3(data, w1, w2, w3 + 5, best)

\* lines 158-181: the loop over w2
RECURSIVE LoopW2(_, _, _, _)
LoopW2(data, w1, w2, best) ==
    IF ~(w2 <= 40) THEN best
    ELSE LET after == LoopW3(data, w1, w2, 10, best)
         IN  \* the test only fixes the evaluation order: both branches are the next iteration
             IF after.rmse <= best.rmse THEN LoopW2(data, w1, w2 + 5, after)
             ELSE LoopW2(data, w1, w2 + 5, after)

\* lines 157-182: the loop over w1
RECURSIVE LoopW1(_, _, _)
LoopW1(data, w1, best) ==
    IF ~(w1 <= 50) THEN best
    ELSE LET after == LoopW2(data, w1, 15, best)
         IN  IF after.rmse <= best.rmse THEN LoopW1(data, w1 + 5, after)
             ELSE LoopW1(data, w1 + 5, after)

\* Calibrate that returns the RMSE after the search instead of the improvement
Calibrate_ReturnsRMSE(w, data) ==
    IF Len(data) < 5 THEN [w |-> w, ret |-> 0]
    ELSE LET rmse_before == GetPredictionRMSE(w, data)
             best == LoopW1(data, 20, [w |-> w, rmse |-> rmse_before])
         IN  [w |-> best.w, ret |-> best.rmse]

\* Calibrate that searches whenever the dataset is not empty
Calibrate_NoMinimum(w, data) ==
    IF Len(data) < 1 THEN [w |-> w, ret |-> 0]
    ELSE LET rmse_before == GetPredictionRMSE(w, data)
             best == LoopW1(data, 20, [w |-> w, rmse |-> rmse_before])
         IN  [w |-> best.w, ret |-> rmse_before - best.rmse]

\* Calibrate that starts the search with no baseline (best_rmse unbounded)
\* instead of the RMSE of the current weights
Calibrate_IgnoreBaseline(w, data) ==
    IF Len(data) < 5 THEN [w |-> w, ret |-> 0]
    ELSE LET rmse_before == GetPredictionRMSE(w, data)
             best == LoopW1(data, 20, [w |-> w, rmse |-> 2000000000])
         IN  [w |-> best.w, ret |-> rmse_before - best.rmse]

\* DifficultyEstimator::Calibrate: the weights after the call and the
\* returned improvement
Calibrate(w, data) ==
    IF Len(data) < 5 THEN [w |-> w, ret |-> 0]
    ELSE LET rmse_before == GetPredictionRMSE(w, data)
             best == LoopW1(data, 20, [w |-> w, rmse |-> rmse_before])
         IN  [w |-> best.w, ret |-> rmse_before - best.rmse]

(***************************************************************************)
(* The calibration file.  A file is a sequence of lines, a line a sequence *)
(* of tokens: words (a key, "=", "#", any other text) and numerals, a      *)
(* numeral being the decimal text of sig * 10^exp.  Weights are hundredths, *)
(* so the numeral of a weight w has the value w / 100.                     *)
(***************************************************************************)
Word(s) == [kind |-> "word", text |-> s, sig |-> 0, exp |-> 0]

Num(sig, exp) == [kind |-> "num", text |-> "", sig |-> sig, exp |-> exp]

\* the number of decimal digits of a >= 1
NumDigits(a) == CHOOSE n \in 1..18 : IPow(10, n - 1) <= a /\ a < IPow(10, n)

\* a divided by 10^k, rounded to the nearest integer (a tie to the even one)
RoundDiv(a, k) ==
    LET p == IPow(10, k)
        q == a \div p
        r == a % p
    IN  IF 2 * r > p \/ (2 * r = p /\ q % 2 = 1) THEN q + 1 ELSE q

\* a numeral without trailing zeros in sig
RECURSIVE Stripped(_, _)
Stripped(sig, exp) ==
    IF sig # 0 /\ sig % 10 = 0 THEN Stripped(sig \div 10, exp + 1)
    ELSE Num(sig, IF sig = 0 THEN 0 ELSE exp)

\* file << w (lines 244-248): operator<< writes a double with the stream's
\* default precision of 6 significant digits
FormatDouble(w) ==
    LET a == IF w < 0 THEN -w ELSE w
        sgn == IF w < 0 THEN -1 ELSE 1
        k == IF a = 0 THEN 0 ELSE Max(0, NumDigits(a) - 6)
    IN  Stripped(sgn * RoundDiv(a, k), k - 2)

\* the double a numeral stands for, in hundredths
NumValue(n) ==
    IF n.exp + 2 >= 0 THEN n.sig * IPow(10, n.exp + 2)
    ELSE TruncDiv(n.sig, IPow(10, -(n.exp + 2)))

\* std::stod(text) of line 265: the outcome for the text after the '='.
\* stod converts the leading numeral and ignores what follows it; it
\* throws std::invalid_argument when the text starts with no numeral and
\* std::out_of_range when the numeral exceeds the range of double.
Stod(text) ==
    IF text = <<>> \/ text[1].kind # "num"
    THEN [thrown |-> TRUE, value |-> 0]
    ELSE IF text[1].sig # 0 /\ NumDigits(IF text[1].sig < 0 THEN -text[1].sig
                                         ELSE text[1].sig) + text[1].exp > 308
    THEN [thrown |-> TRUE, value |-> 0]
    ELSE [thrown |-> FALSE, value |-> NumValue(text[1])]

\* line.find('=') of line 261: the position of the first "=", 0 for npos
FindEq(line) ==
    IF \E i \in 1..Len(line) : line[i] = Word("=")
    THEN CHOOSE i \in 1..Len(line) :
            /\ line[i] = Word("=")
            /\ \A j \in 1..(i - 1) : line[j] # Word("=")
    ELSE 0

\* lines 267-271: the assignment chosen by the key
Assign(w, key, value) ==
    IF key = <<Word("w_size_ratio")>> THEN [w EXCEPT !.size_ratio = value]
    ELSE IF key = <<Word("w_num_types")>> THEN [w EXCEPT !.num_types = value]
    ELSE IF key = <<Word("w_demand")>> THEN [w EXCEPT !.demand = value]
    ELSE IF key = <<Word("w_cv")>> THEN [w EXCEPT !.cv = value]
    ELSE IF key = <<Word("w_width_div")>> THEN [w EXCEPT !.width_div = value]
    ELSE w

\* lines 258-272: the loop over the lines from line i on; the result is the
\* weights and whether an exception left the function
RECURSIVE ReadLines(_, _, _)
ReadLines(w, lines, i) ==
    IF i > Len(lines) THEN [w |-> w, raised |-> FALSE]
    ELSE LET line == lines[i]
             pos == FindEq(line)
             parsed == Stod(SubSeq(line, pos + 1, Len(line)))
         IN  IF line = <<>> \/ line[1] = Word("#") THEN ReadLines(w, lines, i + 1)
             ELSE IF pos = 0 THEN ReadLines(w, lines, i + 1)
             ELSE IF parsed.thrown THEN [w |-> w, raised |-> TRUE]
             ELSE ReadLines(Assign(w, SubSeq(line, 1, pos - 1), parsed.value),
                            lines, i + 1)

\* DifficultyEstimator::SaveCalibration: the lines written
SaveCalibration(w) ==
    << <<Word("#"), Word(" CS-2D-Data Difficulty Estimator Calibration")>>,
       <<Word("w_size_ratio"), Word("="), FormatDouble(w.size_ratio)>>,
       <<Word("w_num_types"), Word("="), FormatDouble(w.num_types)>>,
       <<Word("w_demand"), Word("="), FormatDouble(w.demand)>>,
       <<Word("w_cv"), Word("="), FormatDouble(w.cv)>>,
       <<Word("w_width_div"), Word("="), FormatDouble(w.width_div)>> >>

\* LoadCalibration that restores the default weights when the file cannot
\* be opened
LoadCalibration_ResetOnFailure(w, lines, opened) ==
    IF ~opened THEN [ret |-> FALSE, raised |-> FALSE, w |-> DefaultWeights]
    ELSE LET r == ReadLines(w, lines, 1)
         IN  [ret |-> ~r.raised, raised |-> r.raised, w |-> r.w]

\* DifficultyEstimator::LoadCalibration: the returned value (meaningless
\* when an exception left the function), whether one did, and the weights
\* afterwards
LoadCalibration(w, lines, opened) ==
    IF ~opened THEN [ret |-> FALSE, raised |-> FALSE, w |-> w]
    ELSE LET r == ReadLines(w, lines, 1)
         IN  [ret |-> ~r.raised, raised |-> r.raised, w |-> r.w]

(***************************************************************************)
(* InstanceGenerator::Generate                                             *)
(***************************************************************************)
\* the estimate member of a GenerationResult that Generate never assigned
NoEstimate == [score |-> -1]

\* SetSeed that always seeds from the clock
SetSeed_AlwaysClock(seed, clock) == RngSeed(clock)

\* InstanceGenerator::SetSeed: the stream state after seeding; clock is the
\* value of the system clock, read only when seed is 0
SetSeed(seed, clock) == RngSeed(IF seed = 0 THEN clock ELSE seed)

\* a failure that leaves the error message empty
Failure_NoMessage(msg, rng, invoked) ==
    [result |-> [success |-> FALSE, error_message |-> "",
                 instance |-> NewInstance, estimate |-> NoEstimate],
     rng |-> rng, invoked |-> invoked, padded |-> 0, removed |-> 0, added |-> 0]

\* lines 133-134, 138-139 and 168-169: a result returned before line 173,
\* with the default-constructed instance and estimate
Failure(msg, rng, invoked) ==
    [result |-> [success |-> FALSE, error_message |-> msg,
                 instance |-> NewInstance, estimate |-> NoEstimate],
     rng |-> rng, invoked |-> invoked, padded |-> 0, removed |-> 0, added |-> 0]

\* the switch with case 2 falling through to the Random strategy
RunStrategy_ClusterAsRandom(params, rng, primeFirst) ==
    LET Ran(g, invoked, padded) ==
            [inst |-> g.inst, rng |-> g.rng, invoked |-> invoked,
             padded |-> padded]
        Reversed(g) == Ran(g, "Reverse", g.padded)
    IN  CASE params.strategy = 0 ->
                Reversed(GenerateReverse(params, rng, primeFirst))
          [] params.strategy = 3 ->
                Ran(GenerateResidual(params, rng), "Residual", 0)
          [] OTHER ->
                Ran(GenerateRandom(params, rng, primeFirst), "Random", 0)

\* lines 147-164: the switch on params.strategy
RunStrategy(params, rng, primeFirst) ==
    LET \* g is what the strategy function returned, with the stream after it
        Ran(g, invoked, padded) ==
            [inst |-> g.inst, rng |-> g.rng, invoked |-> invoked,
             padded |-> padded]
        Reversed(g) == Ran(g, "Reverse", g.padded)
    IN  CASE params.strategy = 0 ->
                Reversed(GenerateReverse(params, rng, primeFirst))
          [] params.strategy = 1 ->
                Ran(GenerateRandom(params, rng, primeFirst), "Random", 0)
          [] params.strategy = 2 ->
                Ran(GenerateCluster(params, rng, primeFirst), "Cluster", 0)
          [] params.strategy = 3 ->
                Ran(GenerateResidual(params, rng), "Residual", 0)
          [] OTHER ->
                Ran(GenerateRandom(params, rng, primeFirst), "Random", 0)

\* Generate that never reseeds (lines 143-145 left out)
Generate_NoReseed(params, rng, primeFirst) ==
    LET Fixed(g, vf) ==
            IF ~vf.ok
            THEN Failure("Failed to generate valid instance", vf.rng, g.invoked)
            ELSE [result |-> [success |-> TRUE, error_message |-> "",
                              instance |-> vf.inst,
                              estimate |-> Estimate(DefaultWeights, vf.inst)],
                  rng |-> vf.rng, invoked |-> g.invoked,
                  padded |-> g.padded, removed |-> vf.removed, added |-> vf.added]
        Ran(g) ==
            CASE Computed(g) ->
              Fixed(g, ValidateAndFix(g.inst, params, g.rng, primeFirst))
    IN  IF ~Validate(params) THEN Failure("Invalid parameters", rng, "none")
        ELSE Ran(RunStrategy(params, rng, primeFirst))

\* InstanceGenerator::Generate(params): the result, the stream after the
\* call, the strategy function that ran, and how many items were appended
\* by the Reverse padding loop (padded) and removed / appended by
\* ValidateAndFix (removed, added)
Generate(params, rng, primeFirst) ==
    LET \* lines 167-176, vf being what ValidateAndFix returned
        Fixed(g, vf) ==
            IF ~vf.ok
            THEN Failure("Failed to generate valid instance", vf.rng, g.invoked)
            ELSE [result |-> [success |-> TRUE, error_message |-> "",
                              instance |-> vf.inst,
                              estimate |-> Estimate(DefaultWeights, vf.inst)],
                  rng |-> vf.rng, invoked |-> g.invoked,
                  padded |-> g.padded, removed |-> vf.removed, added |-> vf.added]
        \* line 167, g being what the switch returned
        Ran(g) ==
            CASE Computed(g) ->
              Fixed(g, ValidateAndFix(g.inst, params, g.rng, primeFirst))
    IN  IF ~Validate(params) THEN Failure("Invalid parameters", rng, "none")
        ELSE Ran(RunStrategy(params,
                             IF params.seed # 0 THEN SetSeed(params.seed, 0)
                             ELSE rng,
                             primeFirst))

(***************************************************************************)
(* Configurations offered to Generate                                      *)
(***************************************************************************)
BaseParams ==
    [num_types |-> 3, stock_width |-> 50, stock_length |-> 50,
     min_size_ratio |-> 10, max_size_ratio |-> 30, size_cv |-> 30,
     min_demand |-> 1, max_demand |-> 4, demand_skew |-> 0,
     prime_offset |-> FALSE, num_clusters |-> 0, peak_ratio |-> 0,
     strategy |-> 0, seed |-> 0]

ValidParams ==
    {[BaseParams EXCEPT !.strategy = s] : s \in 0..3}
    \cup {[BaseParams EXCEPT !.strategy = s, !.prime_offset = TRUE,
                             !.num_types = 4, !.demand_skew = 50,
                             !.peak_ratio = 50] : s \in 0..3}
    \cup {[BaseParams EXCEPT !.strategy = s, !.stock_width = 60,
                             !.min_size_ratio = 1, !.max_size_ratio = 80,
                             !.demand_skew = 100, !.num_clusters = 2,
                             !.seed = 7] : s \in 0..3}
    \cup {[BaseParams EXCEPT !.strategy = s, !.num_types = 4,
                             !.min_size_ratio = 1, !.max_size_ratio = 1] : s \in 0..3}

InvalidParams ==
    {[BaseParams EXCEPT !.num_types = 2],
     [BaseParams EXCEPT !.num_types = 201],
     [BaseParams EXCEPT !.stock_width = 49],
     [BaseParams EXCEPT !.stock_length = 49],
     [BaseParams EXCEPT !.min_size_ratio = 0],
     [BaseParams EXCEPT !.min_size_ratio = 51, !.max_size_ratio = 60],
     [BaseParams EXCEPT !.max_size_ratio = 9],
     [BaseParams EXCEPT !.max_size_ratio = 81],
     [BaseParams EXCEPT !.size_cv = -1],
     [BaseParams EXCEPT !.size_cv = 101],
     [BaseParams EXCEPT !.min_demand = 0],
     [BaseParams EXCEPT !.max_demand = 0],
     [BaseParams EXCEPT !.demand_skew = -1],
     [BaseParams EXCEPT !.demand_skew = 101],
     [BaseParams EXCEPT !.strategy = -1],
     [BaseParams EXCEPT !.strategy = 4],
     [BaseParams EXCEPT !.strategy = 1, !.peak_ratio = 150],
     [BaseParams EXCEPT !.strategy = 1, !.peak_ratio = -50],
     [BaseParams EXCEPT !.strategy = 2, !.num_clusters = -1]}

ParamSet == ValidParams \cup InvalidParams

(***************************************************************************)
(* The legacy interface: a configuration derived from one difficulty       *)
(* scalar.  The difficulty is in thousandths; the derived ratios are in    *)
(* units of 0.00001, where 0.08 + d * 0.07 is the integer 8000 + 7 * d.    *)
(***************************************************************************)
\* GenerateLegacy with prime_offset set from difficulty >= 0.5
LegacyParams_OffsetAtHalf(difficulty, stock_width, stock_length) ==
    LET d == Clamp(difficulty, 0, 1000)
    IN  [stock_width |-> stock_width,
         stock_length |-> stock_length,
         num_types |-> 5 + (d * 35) \div 1000,
         min_size_ratio |-> 8000 + d * 7,
         max_size_ratio |-> 35000 + d * 15,
         min_demand |-> Max(1, 6 - (d * 5) \div 1000),
         max_demand |-> Max(3, 30 - (d * 27) \div 1000),
         size_cv |-> 15000 + d * 35,
         demand_skew |-> d * 50,
         prime_offset |-> d >= 500,
         strategy |-> IF d < 300 THEN 0 ELSE IF d < 800 THEN 1 ELSE 3]

\* InstanceGenerator::GenerateLegacy, lines 187-204: the configuration
\* handed to Generate
LegacyParams(difficulty, stock_width, stock_length) ==
    LET d == Clamp(difficulty, 0, 1000)
    IN  [stock_width |-> stock_width,
         stock_length |-> stock_length,
         num_types |-> 5 + (d * 35) \div 1000,
         min_size_ratio |-> 8000 + d * 7,
         max_size_ratio |-> 35000 + d * 15,
         min_demand |-> Max(1, 6 - (d * 5) \div 1000),
         max_demand |-> Max(3, 30 - (d * 27) \div 1000),
         size_cv |-> 15000 + d * 35,
         demand_skew |-> d * 50,
         prime_offset |-> d > 500,
         strategy |-> IF d < 300 THEN 0 ELSE IF d < 800 THEN 1 ELSE 3]

\* struct DifficultyParams of the first interface: what its member functions
\* return (SizeSimilarity in units of 0.0001); Strategy 2 is the residual
\* strategy there
DifficultyParams(diff) ==
    LET difficulty == Clamp(diff, 0, 1000)
        MaxDemand == Max(3, 30 - (difficulty * 27) \div 1000)
    IN  [NumItemTypes |-> 5 + (difficulty * 35) \div 1000,
         SizeSimilarity |-> difficulty * 9,
         MaxDemand |-> MaxDemand,
         MinDemand |-> Max(1, MaxDemand \div 5),
         MinSizeRatio |-> 8000 + difficulty * 7,
         MaxSizeRatio |-> 35000 + difficulty * 15,
         UsePrimeOffset |-> difficulty > 500,
         Strategy |-> IF difficulty < 300 THEN 0
                      ELSE IF difficulty < 800 THEN 1 ELSE 2]

(***************************************************************************)
(* State                                                                   *)
(***************************************************************************)
VARIABLES
    gen,              \* the generators: constructor seed, rng_, calls made, and
                      \* the last Generate call (params, result, what it ran)
    primeFirst,       \* the build's order of the two draws of the prime offset
    weights,          \* DifficultyEstimator: w_size_ratio_ .. w_width_div_
    calibration_data, \* DifficultyEstimator::calibration_data_
    estOp,            \* the last estimator operation and what it returned
    probe,            \* the last score mapped to level, gap string and nodes
    scoreLog,         \* the last two ComputeScore calls under the current weights
    file,             \* the calibration file on disk
    legacy,           \* the last two configurations derived from a difficulty scalar
    sample            \* what a step of the generator returned when run on its own

vars == <<gen, primeFirst, weights, calibration_data, estOp, probe, scoreLog,
          file, legacy, sample>>

genVars == <<gen, primeFirst, legacy, sample>>

estVars == <<weights, calibration_data, estOp, probe, scoreLog, file>>

Gens == {1, 2}

NoParams == [strategy |-> -99]

NoResult == [success |-> FALSE, error_message |-> "no call"]

NoOp == [op |-> "none", ret |-> 0, w_before |-> DefaultWeights]

NoProbe == [score |-> -1]

\* no calibration file was written
NoFile == [exists |-> FALSE]

\* no step was run on its own
NoSample == [fn |-> "none", n |-> 0]

\* InstanceGenerator::InstanceGenerator(seed)
NewGenerator(seed, clock) ==
    [ctorSeed |-> seed, rng |-> SetSeed(seed, clock), calls |-> 0,
     params |-> NoParams, result |-> NoResult, invoked |-> "none",
     padded |-> 0, removed |-> 0, added |-> 0]

\* a generator that was never constructed
Absent ==
    [ctorSeed |-> -1, rng |-> 0, calls |-> 0,
     params |-> NoParams, result |-> NoResult, invoked |-> "none",
     padded |-> 0, removed |-> 0, added |-> 0]

\* DifficultyEstimator::DifficultyEstimator
NewEstimator ==
    /\ weights = DefaultWeights
    /\ calibration_data = <<>>
    /\ estOp = NoOp
    /\ probe = NoProbe
    /\ scoreLog = <<>>
    /\ file = NoFile

NoGenerators ==
    /\ gen = [g \in Gens |-> Absent]
    /\ primeFirst = TRUE
    /\ legacy = <<>>
    /\ sample = NoSample

\* generator g calls Generate(params)
GenerateCall(g, params) ==
    /\ gen[g].ctorSeed # -1
    /\ gen[g].calls < MaxCalls
    /\ LET Returned(r) ==
               gen' = [gen EXCEPT ![g] =
                         [ctorSeed |-> gen[g].ctorSeed, rng |-> r.rng,
                          calls |-> gen[g].calls + 1, params |-> params,
                          result |-> r.result, invoked |-> r.invoked,
                          padded |-> r.padded, removed |-> r.removed,
                          added |-> r.added]]
       IN  Returned(Generate(params, gen[g].rng, primeFirst))
    /\ UNCHANGED <<primeFirst, legacy, sample, estVars>>

Init ==
    /\ primeFirst \in BOOLEAN
    /\ \E seed \in Seeds, clock \in ClockSeeds :
          gen = [g \in Gens |-> IF g = 1 THEN NewGenerator(seed, clock) ELSE Absent]
    /\ legacy = <<>>
    /\ sample = NoSample
    /\ NewEstimator

Next == \E params \in ParamSet : GenerateCall(1, params)

Spec == Init /\ [][Next]_vars

(***************************************************************************)
(* Two independent runs: two generators constructed with the same seed,    *)
(* each calling Generate once with the same configuration                  *)
(***************************************************************************)
PairInit ==
    /\ primeFirst \in BOOLEAN
    /\ \E seed \in Seeds, c1 \in ClockSeeds, c2 \in ClockSeeds :
          gen = [g \in Gens |-> IF g = 1 THEN NewGenerator(seed, c1)
                                ELSE NewGenerator(seed, c2)]
    /\ legacy = <<>>
    /\ sample = NoSample
    /\ NewEstimator

PairCall(g, params) ==
    /\ gen[g].calls = 0
    /\ \A h \in Gens \ {g} : gen[h].calls > 0 => params = gen[h].params
    /\ GenerateCall(g, params)

PairNext == \E g \in Gens, params \in ParamSet : PairCall(g, params)

SpecPair == PairInit /\ [][PairNext]_vars

(***************************************************************************)
(* The score bands: Estimate's three mappings applied to one score         *)
(***************************************************************************)
MaxScore == 2200

\* lines 59-64 of Estimate for a given result.score
Classify(score) ==
    /\ probe' = [score |-> score,
                 level |-> ScoreToLevel(score),
                 estimated_gap |-> EstimateGapString(score),
                 estimated_nodes |-> EstimateNodes(score)]
    /\ UNCHANGED <<genVars, weights, calibration_data, estOp, scoreLog, file>>

BandInit == NoGenerators /\ NewEstimator

BandNext == \E score \in 0..MaxScore : Classify(score)

SpecBand == BandInit /\ [][BandNext]_vars

(***************************************************************************)
(* ComputeScore under fixed weights                                        *)
(***************************************************************************)
\* weights handed to SetWeights: below every grid band, and with a negative
\* entry
LowWeights ==
    [size_ratio |-> 10, num_types |-> 10, demand |-> 10, cv |-> 10, width_div |-> 10]

NegativeWeights ==
    [size_ratio |-> -20, num_types |-> 40, demand |-> -10, cv |-> 60, width_div |-> 30]

WeightChoices == {LowWeights, NegativeWeights}

\* feature vectors (thousandths, num_types a count)
FeatureSet ==
    [avg_size_ratio : {100, 200}, num_types : {3, 30},
     avg_demand : {0, 1000, 5000}, size_cv : {0, 150, 300},
     width_diversity : {500, 1000}]

\* DifficultyEstimator::SetWeights
SetWeights(w) ==
    /\ weights' = w
    /\ estOp' = [op |-> "SetWeights", ret |-> 0, w_before |-> weights]
    /\ scoreLog' = <<>>
    /\ UNCHANGED <<genVars, calibration_data, probe, file>>

\* one call of ComputeScore with the current weights
ComputeScoreCall(f) ==
    /\ scoreLog' = (IF Len(scoreLog) = 2 THEN Tail(scoreLog) ELSE scoreLog)
                     \o <<[f |-> f, score |-> ScoreOf(weights, f)]>>
    /\ UNCHANGED <<genVars, weights, calibration_data, estOp, probe, file>>

ScoreInit == NoGenerators /\ NewEstimator

ScoreNext ==
    \/ \E w \in WeightChoices : SetWeights(w)
    \/ \E f \in FeatureSet : ComputeScoreCall(f)

SpecScore == ScoreInit /\ [][ScoreNext]_vars

(***************************************************************************)
(* The estimator and its calibration dataset                               *)
(***************************************************************************)
MaxPoints == 5

\* calibration points: every factor 1.0 with an observed gap of 5%, and a
\* point with large items and low demand with an observed gap of 14.7%
PointSet ==
    {[num_types |-> 30, avg_size_ratio |-> 200, avg_demand |-> 5000,
      size_cv |-> 300, width_diversity |-> 1000, actual_gap |-> 50,
      actual_nodes |-> 40, solve_time |-> 1, timed_out |-> FALSE],
     [num_types |-> 10, avg_size_ratio |-> 300, avg_demand |-> 2000,
      size_cv |-> 150, width_diversity |-> 500, actual_gap |-> 147,
      actual_nodes |-> 900, solve_time |-> 60, timed_out |-> TRUE]}

\* AddCalibrationPoint keeping only the newest point
AddCalibrationPoint_KeepNewest(point) ==
    /\ Len(calibration_data) < MaxPoints
    /\ calibration_data' = <<point>>
    /\ estOp' = [op |-> "AddCalibrationPoint", ret |-> 0, w_before |-> weights]
    /\ UNCHANGED <<genVars, weights, probe, scoreLog, file>>

\* DifficultyEstimator::AddCalibrationPoint
AddCalibrationPoint(point) ==
    /\ Len(calibration_data) < MaxPoints
    /\ calibration_data' = Append(calibration_data, point)
    /\ estOp' = [op |-> "AddCalibrationPoint", ret |-> 0, w_before |-> weights]
    /\ UNCHANGED <<genVars, weights, probe, scoreLog, file>>

\* DifficultyEstimator::Calibrate
CalibrateCall ==
    /\ LET c == Calibrate(weights, calibration_data)
       IN  /\ weights' = c.w
           /\ estOp' = [op |-> "Calibrate", ret |-> c.ret, w_before |-> weights]
    /\ scoreLog' = <<>>
    /\ UNCHANGED <<genVars, calibration_data, probe, file>>

EstInit == NoGenerators /\ NewEstimator

EstNext ==
    \/ \E point \in PointSet : AddCalibrationPoint(point)
    \/ CalibrateCall
    \/ \E w \in WeightChoices : SetWeights(w)

SpecEst == EstInit /\ [][EstNext]_vars

(***************************************************************************)
(* GenerateItemSize called on its own                                      *)
(***************************************************************************)
MaxSamples == 3

\* configurations that pass Validate, by their size fields: those of
\* ValidParams, a stock longer than wide, and a stock much wider than long
SizeParams ==
    {p \in ValidParams : p.strategy = 0}
    \cup {[BaseParams EXCEPT !.stock_length = 60, !.max_size_ratio = 80],
          [BaseParams EXCEPT !.stock_width = 80, !.prime_offset = TRUE,
                             !.min_size_ratio = 20, !.max_size_ratio = 80]}

\* one call GenerateItemSize(params) on generator 1, as every caller makes it
\* (base_w = base_l = 0)
SampleItemSize(params) ==
    /\ sample.n < MaxSamples
    /\ LET Sized(s) ==
               /\ sample' = [fn |-> "GenerateItemSize", n |-> sample.n + 1,
                             params |-> params, w |-> s.w, l |-> s.l]
               /\ gen' = [gen EXCEPT ![1].rng = s.rng]
       IN  Sized(GenerateItemSize(params, 0, 0, gen[1].rng, primeFirst))
    /\ UNCHANGED <<primeFirst, legacy, estVars>>

SizeNext == \E params \in SizeParams : SampleItemSize(params)

SpecSize == Init /\ [][SizeNext]_vars

(***************************************************************************)
(* One type of the Random strategy, on given sampled sizes                 *)
(***************************************************************************)
\* the sizes GenerateItemSize can return for a 50 x 50 stock with both size
\* ratios 0.01
SmallSizes == {<<5, 5>>, <<5, 6>>, <<5, 7>>}

\* how many of the first samples are one size before another follows
RunLengths == {0, 1, 2, 48, 49, 50}

\* sequences of max_attempts sampled sizes: a run of one size, then another
SizeRuns ==
    {[i \in 1..max_attempts |-> IF i <= k THEN a ELSE b] :
        k \in RunLengths, a \in SmallSizes, b \in SmallSizes}

\* one iteration of the loop over the types (lines 324-340) with the set
\* used_sizes and the sizes the calls of GenerateItemSize return
SampleRandomType(used_sizes, sizes) ==
    /\ LET Tried(r) ==
               sample' = [fn |-> "RandomType", n |-> 1, used |-> used_sizes,
                          sizes |-> sizes, attempts |-> r.attempts,
                          w |-> r.w, l |-> r.l, added |-> r.added,
                          used_after |-> IF r.added
                                         THEN used_sizes \cup {<<r.w, r.l>>}
                                         ELSE used_sizes]
       IN  Tried(RandomType(used_sizes, sizes))
    /\ UNCHANGED <<gen, primeFirst, legacy, estVars>>

TypeInit == NoGenerators /\ NewEstimator

TypeNext ==
    \E used_sizes \in SUBSET SmallSizes, sizes \in SizeRuns :
        SampleRandomType(used_sizes, sizes)

SpecType == TypeInit /\ [][TypeNext]_vars

(***************************************************************************)
(* Calibration on points whose best tuple lies on the edge of the grid     *)
(***************************************************************************)
\* a point with large items, few types and a uniform width, observed gap
\* 20%: its predicted score grows with w_size_ratio, then with w_demand,
\* and stays below the observed one on the whole grid
CornerPoint ==
    [num_types |-> 15, avg_size_ratio |-> 400, avg_demand |-> 5000,
     size_cv |-> 30, width_diversity |-> 500, actual_gap |-> 200,
     actual_nodes |-> 5000, solve_time |-> 300, timed_out |-> TRUE]

CornerPointSet == {CornerPoint} \cup {p \in PointSet : ~p.timed_out}

CornerInit == NoGenerators /\ NewEstimator

CornerNext ==
    \/ \E point \in CornerPointSet : AddCalibrationPoint(point)
    \/ CalibrateCall
    \/ \E w \in WeightChoices : SetWeights(w)

SpecCorner == CornerInit /\ [][CornerNext]_vars

(***************************************************************************)
(* The legacy mapping applied to two difficulties in turn                  *)
(***************************************************************************)
\* difficulties (thousandths): below 0 and above 1, and around the
\* thresholds 0.3, 0.5 and 0.8
DifficultyChoices ==
    {-100, 0, 100, 199, 200, 299, 300, 301, 500, 501, 799, 800, 801, 999,
     1000, 1200}

StockChoices == {50, 60}

\* lines 187-204 of GenerateLegacy and the DifficultyParams constructor for
\* one difficulty; legacy keeps the last two
MapDifficulty(difficulty, stock_width, stock_length) ==
    /\ legacy' = (IF Len(legacy) = 2 THEN Tail(legacy) ELSE legacy)
                   \o <<[d |-> difficulty,
                         params |-> LegacyParams(difficulty, stock_width,
                                                 stock_length),
                         derived |-> DifficultyParams(difficulty)]>>
    /\ UNCHANGED <<gen, primeFirst, sample, estVars>>

LegacyInit == NoGenerators /\ NewEstimator

LegacyNext ==
    \E difficulty \in DifficultyChoices, stock_width \in StockChoices :
        MapDifficulty(difficulty, stock_width, 50)

SpecLegacy == LegacyInit /\ [][LegacyNext]_vars

(***************************************************************************)
(* Weights of several lengths                                              *)
(***************************************************************************)
\* weights handed to SetWeights: 12345.67 has seven significant digits,
\* 12.34 four and 20000 one
LongWeights ==
    [size_ratio |-> 1234567, num_types |-> 25, demand |-> 20, cv |-> 15,
     width_div |-> 5]

RoundWeights ==
    [size_ratio |-> 2000000, num_types |-> 0, demand |-> 12, cv |-> 1234,
     width_div |-> -5]

FileWeightChoices == {LowWeights, NegativeWeights, LongWeights, RoundWeights}

(***************************************************************************)
(* Estimate on given instances under given weights                         *)
(***************************************************************************)
\* instances handed to Estimate: no items; two items nobody demands; three
\* demanded items; a single item; three items nobody demands and no stock;
\* one item demanded and one not; one item whose demanded area is within a
\* stock area of the largest int; one item demanded a little less
InstanceChoices ==
    { NewInstance,
      [stock_width |-> 100, stock_length |-> 200,
       items |-> <<MkItem(0, 30, 50, 0), MkItem(1, 20, 40, 0)>>,
       known_optimal |-> -1],
      [stock_width |-> 100, stock_length |-> 200,
       items |-> <<MkItem(0, 30, 50, 4), MkItem(1, 20, 80, 2),
                   MkItem(2, 30, 60, 6)>>,
       known_optimal |-> 1],
      [stock_width |-> 100, stock_length |-> 200,
       items |-> <<MkItem(0, 40, 40, 1)>>, known_optimal |-> -1],
      [stock_width |-> 0, stock_length |-> 0,
       items |-> <<MkItem(0, 10, 20, 0), MkItem(1, 10, 30, 0),
                   MkItem(2, 20, 30, 0)>>,
       known_optimal |-> -1],
      [stock_width |-> 100, stock_length |-> 100,
       items |-> <<MkItem(0, 25, 50, 3), MkItem(1, 25, 40, 0)>>,
       known_optimal |-> -1],
      [stock_width |-> 100, stock_length |-> 100,
       items |-> <<MkItem(0, 40, 50, 1073741)>>, known_optimal |-> -1],
      [stock_width |-> 100, stock_length |-> 100,
       items |-> <<MkItem(0, 40, 50, 1073000)>>, known_optimal |-> -1] }

\* DifficultyEstimator::Estimate(inst) with the current weights
EstimateCall(inst) ==
    /\ LET Estimated(e) == probe' = [score |-> e.score, inst |-> inst, est |-> e]
       IN  Estimated(Estimate(weights, inst))
    /\ estOp' = [op |-> "Estimate", ret |-> 0, w_before |-> weights]
    /\ UNCHANGED <<genVars, weights, calibration_data, scoreLog, file>>

\* line 71 multiplies lb_plates by StockArea() beyond the range of int
UtilizationOverflows(inst) ==
    LET sa == StockArea(inst)
        tda == TotalDemandArea(inst)
    IN  /\ sa > 0
        /\ IntOverflows(tda \div sa + (IF tda % sa > 0 THEN 1 ELSE 0), sa)

\* DifficultyEstimator::Estimate(inst) in a build that traps on signed
\* overflow: the call does not return
EstimateTrap(inst) ==
    /\ UtilizationOverflows(inst)
    /\ estOp' = [op |-> "abort", ret |-> 0, w_before |-> weights]
    /\ UNCHANGED <<genVars, weights, calibration_data, probe, scoreLog, file>>

InstInit == NoGenerators /\ NewEstimator

InstNext ==
    \/ \E w \in FileWeightChoices : SetWeights(w)
    \/ \E inst \in InstanceChoices : EstimateCall(inst)
    \/ \E inst \in InstanceChoices : EstimateTrap(inst)

SpecInst == InstInit /\ [][InstNext]_vars

(***************************************************************************)
(* The estimator and its calibration file                                  *)
(***************************************************************************)
\* files written by hand: an empty file; blank and comment lines around
\* two weights; an unrecognized key with a number; a line without "=";
\* a number with text after it and a second "="; an unrecognized key with
\* text between two weights; a recognized key with nothing after the "=";
\* a number beyond the range of double
FileChoices ==
    { <<>>,
      << <<>>, <<Word("#"), Word(" tuned by hand")>>,
         <<Word("w_cv"), Word("="), Num(3, -1)>>,
         <<Word("#")>>,
         <<Word("w_size_ratio"), Word("="), Num(-45, -2)>> >>,
      << <<Word("version"), Word("="), Num(2, 0)>>,
         <<Word("w_demand"), Word("="), Num(4, -1)>> >>,
      << <<Word("w_cv")>>, <<Word("w_num_types"), Num(3, -1)>> >>,
      << <<Word("w_width_div"), Word("="), Num(1, -1), Word("abc")>>,
         <<Word("w_cv"), Word("="), Num(2, -1), Word("="), Num(5, 0)>> >>,
      << <<Word("w_demand"), Word("="), Num(3, -1)>>,
         <<Word("note"), Word("="), Word("tuned")>>,
         <<Word("w_cv"), Word("="), Num(1, -1)>> >>,
      << <<Word("w_num_types"), Word("=")>> >>,
      << <<Word("w_size_ratio"), Word("="), Num(1, 999)>> >> }

\* DifficultyEstimator::DifficultyEstimator: a new estimator takes the
\* place of the old one
Construct ==
    /\ weights' = DefaultWeights
    /\ calibration_data' = <<>>
    /\ estOp' = [op |-> "DifficultyEstimator", ret |-> 0, w_before |-> weights]
    /\ scoreLog' = <<>>
    /\ UNCHANGED <<genVars, probe, file>>

\* the file is written by something other than SaveCalibration
WriteFile(lines) ==
    /\ file' = [exists |-> TRUE, lines |-> lines, saved |-> FALSE,
                writer |-> DefaultWeights]
    /\ UNCHANGED <<genVars, weights, calibration_data, estOp, probe, scoreLog>>

\* DifficultyEstimator::SaveCalibration(filepath): opens tells whether the
\* ofstream opens the path
SaveCalibrationCall(opens) ==
    /\ file' = IF opens
               THEN [exists |-> TRUE, lines |-> SaveCalibration(weights),
                     saved |-> TRUE, writer |-> weights]
               ELSE file
    /\ estOp' = [op |-> "SaveCalibration", ret |-> opens, w_before |-> weights,
                 opened |-> opens, raised |-> FALSE, fresh |-> FALSE]
    /\ UNCHANGED <<genVars, weights, calibration_data, probe, scoreLog>>

\* DifficultyEstimator::LoadCalibration(filepath): the ifstream opens the
\* path when the file exists and can be read
LoadCalibrationCall(readable) ==
    /\ LET Loaded(opens, r) ==
               /\ weights' = r.w
               /\ estOp' = [op |-> "LoadCalibration", ret |-> r.ret,
                            w_before |-> weights, opened |-> opens,
                            raised |-> r.raised,
                            fresh |-> estOp.op \in {"none", "DifficultyEstimator"}]
           Opened(opens) ==
               Loaded(opens, LoadCalibration(weights,
                                 IF file.exists THEN file.lines ELSE <<>>, opens))
       IN  Opened(file.exists /\ readable)
    /\ scoreLog' = <<>>
    /\ UNCHANGED <<genVars, calibration_data, probe, file>>

FileInit == NoGenerators /\ NewEstimator

FileNext ==
    \/ \E w \in FileWeightChoices : SetWeights(w)
    \/ \E opens \in BOOLEAN : SaveCalibrationCall(opens)
    \/ \E readable \in BOOLEAN : LoadCalibrationCall(readable)
    \/ \E lines \in FileChoices : WriteFile(lines)
    \/ Construct

SpecFile == FileInit /\ [][FileNext]_vars

(***************************************************************************)
(* The operations of one estimator, in any order                           *)
(***************************************************************************)
\* DifficultyEstimator::GetPredictionRMSE
GetPredictionRMSECall ==
    /\ estOp' = [op |-> "GetPredictionRMSE",
                 ret |-> GetPredictionRMSE(weights, calibration_data),
                 w_before |-> weights]
    /\ UNCHANGED <<genVars, weights, calibration_data, probe, scoreLog, file>>

\* the instances with three items
OpsInstances == {inst \in InstanceChoices : Len(inst.items) = 3}

OpsInit == NoGenerators /\ NewEstimator

OpsNext ==
    \/ \E inst \in OpsInstances : EstimateCall(inst)
    \/ AddCalibrationPoint(CornerPoint)
    \/ GetPredictionRMSECall
    \/ CalibrateCall
    \/ SetWeights(LowWeights)
    \/ SaveCalibrationCall(TRUE)
    \/ LoadCalibrationCall(TRUE)

SpecOps == OpsInit /\ [][OpsNext]_vars

(***************************************************************************)
(* GenerateReverse, one loop iteration at a time.  sample holds the locals *)
(* of the call: pc is the loop the call is in, cut what the last step did. *)
(***************************************************************************)
\* lines 210-232: the call up to the first stock
StartReverse(params) ==
    /\ sample.fn = "none"
    /\ LET Based(dk, bs) ==
               /\ sample' = [fn |-> "GenerateReverse", n |-> 0, pc |-> "Stage1",
                             params |-> params, start |-> gen[1].rng,
                             num_stocks |-> dk.val, base_sizes |-> bs.sizes,
                             s |-> 0, remaining_width |-> params.stock_width,
                             remaining_length |-> 0, strip_width |-> 0,
                             dm |-> <<>>, cut |-> "none",
                             inst |-> NewInstance, padded |-> 0]
               /\ gen' = [gen EXCEPT ![1].rng = bs.rng]
           Counted(dk) ==
               Based(dk, BaseSizes(params, params.num_types, dk.rng, primeFirst))
       IN  Counted(UniformInt(gen[1].rng, 3, 8))
    /\ UNCHANGED <<primeFirst, legacy, estVars>>

\* lines 235-236 and 281-282: the stock is finished; the next one starts
\* with the full width, and after the last one the loops are left
NextStock(cut, rng) ==
    /\ sample' = [sample EXCEPT
                     !.n = @ + 1, !.cut = cut, !.s = @ + 1,
                     !.pc = IF sample.s + 1 < sample.num_stocks THEN "Stage1"
                            ELSE "Items",
                     !.remaining_width =
                         IF sample.s + 1 < sample.num_stocks
                         THEN sample.params.stock_width ELSE @]
    /\ gen' = [gen EXCEPT ![1].rng = rng]

\* Stage 1 taking the sampled type even where it is too wide
Stage1Step_NoFit ==
    /\ sample.fn = "GenerateReverse" /\ sample.pc = "Stage1"
    /\ IF ~(sample.remaining_width > 0) THEN NextStock("stock done", gen[1].rng)
       ELSE LET d == UniformInt(gen[1].rng, 0, sample.params.num_types - 1)
                strip_width == sample.base_sizes[d.val + 1][1]
            IN  /\ sample' = [sample EXCEPT
                                 !.n = @ + 1, !.cut = "strip", !.pc = "Stage2",
                                 !.strip_width = strip_width,
                                 !.remaining_length = sample.params.stock_length]
                /\ gen' = [gen EXCEPT ![1].rng = d.rng]
    /\ UNCHANGED <<primeFirst, legacy, estVars>>

\* lines 239-258: the test of the Stage 1 loop and, inside it, the choice of
\* the strip width
Stage1Step ==
    /\ sample.fn = "GenerateReverse" /\ sample.pc = "Stage1"
    /\ IF ~(sample.remaining_width > 0) THEN NextStock("stock done", gen[1].rng)
       ELSE LET d == UniformInt(gen[1].rng, 0, sample.params.num_types - 1)
                type_idx == d.val + 1
                Feasible(i) == sample.base_sizes[i][1] <= sample.remaining_width
                feasible == AscSeq({i \in 1..sample.params.num_types : Feasible(i)})
                tooWide == sample.base_sizes[type_idx][1] > sample.remaining_width
                strip_width == IF tooWide THEN sample.base_sizes[feasible[1]][1]
                               ELSE sample.base_sizes[type_idx][1]
            IN  IF tooWide /\ feasible = <<>>
                THEN NextStock("no strip fits", d.rng)
                ELSE /\ sample' = [sample EXCEPT
                                      !.n = @ + 1, !.cut = "strip",
                                      !.pc = "Stage2",
                                      !.strip_width = strip_width,
                                      !.remaining_length =
                                          sample.params.stock_length]
                     /\ gen' = [gen EXCEPT ![1].rng = d.rng]
    /\ UNCHANGED <<primeFirst, legacy, estVars>>

\* lines 261-280: the test of the Stage 2 loop and one cut; when the loop is
\* left, line 280 takes the strip off the remaining width
Stage2Step ==
    /\ sample.fn = "GenerateReverse" /\ sample.pc = "Stage2"
    /\ LET Fits(i) == /\ sample.base_sizes[i][1] = sample.strip_width
                      /\ sample.base_sizes[i][2] <= sample.remaining_length
           valid_types == AscSeq({i \in 1..Len(sample.base_sizes) : Fits(i)})
       IN  IF ~(sample.remaining_length > 0) \/ valid_types = <<>>
           THEN /\ sample' = [sample EXCEPT
                                 !.n = @ + 1, !.cut = "strip done",
                                 !.pc = "Stage1",
                                 !.remaining_width = @ - sample.strip_width]
                /\ UNCHANGED gen
           ELSE LET d == UniformInt(gen[1].rng, 0, Len(valid_types) - 1)
                    picked == valid_types[d.val + 1]
                IN  /\ sample' = [sample EXCEPT
                                     !.n = @ + 1, !.cut = "item",
                                     !.dm = MapIncr(@, sample.base_sizes[picked]),
                                     !.remaining_length =
                                         @ - sample.base_sizes[picked][2]]
                    /\ gen' = [gen EXCEPT ![1].rng = d.rng]
    /\ UNCHANGED <<primeFirst, legacy, estVars>>

\* lines 284-309: the items of demand_map and the padding
FinishReverse ==
    /\ sample.fn = "GenerateReverse" /\ sample.pc = "Items"
    /\ LET keys == SortedPairs({k \in DOMAIN sample.dm : sample.dm[k] > 0})
           Padded(p) ==
               /\ sample' = [sample EXCEPT
                                !.n = @ + 1, !.cut = "none", !.pc = "done",
                                !.inst = p.inst,
                                !.padded = Len(p.inst.items) - Len(keys)]
               /\ gen' = [gen EXCEPT ![1].rng = p.rng]
       IN  Padded(PadReverse(sample.params,
                      [stock_width |-> sample.params.stock_width,
                       stock_length |-> sample.params.stock_length,
                       items |-> [i \in 1..Len(keys) |->
                                    MkItem(i - 1, keys[i][1], keys[i][2],
                                           sample.dm[keys[i]])],
                       known_optimal |-> sample.num_stocks],
                      gen[1].rng, primeFirst))
    /\ UNCHANGED <<primeFirst, legacy, estVars>>

PackNext ==
    \/ \E params \in SizeParams : StartReverse(params)
    \/ Stage1Step
    \/ Stage2Step
    \/ FinishReverse

SpecPack == Init /\ [][PackNext]_vars

\* a call that is in the two loops is one thread of control: it takes the
\* step it is at
SpecPackLive == SpecPack /\ WF_vars(Stage1Step \/ Stage2Step)

(***************************************************************************)
(* Generate on stocks whose area leaves the range of int                   *)
(***************************************************************************)
\* configurations that pass Validate (which puts no upper limit on the
\* stock) with stock_width * stock_length = 2147488281 > INT_MAX
OverflowParams ==
    {[BaseParams EXCEPT !.stock_width = 46341, !.stock_length = 46341,
                        !.strategy = s] : s \in 0..3}

\* Every strategy starts with a call of GenerateItemSize, whose line 474
\* multiplies W by L as int.  Once the product has wrapped to a negative
\* value, lines 479-482 take the square root of a negative number and hand
\* uniform_int_distribution the bounds (5, INT_MIN): the call of line 503
\* does not return (the process ends), or returns a width that no repair
\* makes valid
UndefinedOutcomes == {"no return", "Failed to generate valid instance"}

\* generator g calls Generate(params) with such a configuration
GenerateUndefined(g, params, outcome) ==
    /\ gen[g].ctorSeed # -1
    /\ gen[g].calls < MaxCalls
    /\ Validate(params)
    /\ IntOverflows(params.stock_width, params.stock_length)
    /\ IntTimes(params.stock_width, params.stock_length) < 0
    /\ LET Ended(r) ==
               gen' = [gen EXCEPT ![g] =
                         [ctorSeed |-> gen[g].ctorSeed, rng |-> r.rng,
                          calls |-> IF outcome = "no return" THEN MaxCalls
                                    ELSE gen[g].calls + 1,
                          params |-> params,
                          result |-> r.result, invoked |-> r.invoked,
                          padded |-> r.padded, removed |-> r.removed,
                          added |-> r.added]]
           \* lines 148-163: the strategy function that was running
           invoked == CASE params.strategy = 0 -> "Reverse"
                        [] params.strategy = 2 -> "Cluster"
                        [] params.strategy = 3 -> "Residual"
                        [] OTHER -> "Random"
       IN  Ended(Failure(outcome, gen[g].rng, invoked))
    /\ UNCHANGED <<primeFirst, legacy, sample, estVars>>

WideNext ==
    \/ \E params \in ValidParams : GenerateCall(1, params)
    \/ \E params \in OverflowParams, outcome \in UndefinedOutcomes :
          GenerateUndefined(1, params, outcome)

SpecWide == Init /\ [][WideNext]_vars

(***************************************************************************)
(* Properties                                                              *)
(***************************************************************************)
Called(g) == gen[g].calls > 0

InstanceOf(g) == gen[g].result.instance

\* C1: every instance returned with success=true has at least 3 items, and
\* every item has 1 <= width <= stock_width, 1 <= length <= stock_length
\* and demand >= 1.
Thm_C1_Validity ==
    \A g \in Gens : gen[g].result.success =>
        LET inst == InstanceOf(g)
        IN  /\ Len(inst.items) >= 3
            /\ \A i \in 1..Len(inst.items) :
                  /\ 1 <= inst.items[i].width
                  /\ inst.items[i].width <= gen[g].params.stock_width
                  /\ 1 <= inst.items[i].length
                  /\ inst.items[i].length <= gen[g].params.stock_length
                  /\ inst.items[i].demand >= 1

\* a successful Generate in which ValidateAndFix removed items and added others
Wit_C1_Repaired ==
    gen[1].result.success /\ gen[1].removed > 0 /\ gen[1].added > 0

\* C2 as stated: two generators constructed with the same seed that each
\* called Generate once with the same configuration hold identical instances.
Cex_C2_AnySeed ==
    (gen[1].calls = 1 /\ gen[2].calls = 1
        /\ gen[1].ctorSeed = gen[2].ctorSeed /\ gen[1].params = gen[2].params)
    => InstanceOf(1) = InstanceOf(2)

\* C2 amended: the two instances are identical when the seed is not 0 (the
\* constructor's seed, or the configuration's seed, which replaces it).
Thm_C2_NonZeroSeed ==
    (gen[1].calls = 1 /\ gen[2].calls = 1
        /\ gen[1].ctorSeed = gen[2].ctorSeed /\ gen[1].params = gen[2].params
        /\ (gen[1].ctorSeed # 0 \/ gen[1].params.seed # 0))
    => InstanceOf(1) = InstanceOf(2)

\* both runs done from a non-zero constructor seed, config seed 0, with success
Wit_C2_BothRan ==
    /\ gen[1].calls = 1 /\ gen[2].calls = 1
    /\ gen[1].ctorSeed # 0 /\ gen[1].ctorSeed = gen[2].ctorSeed
    /\ gen[1].params = gen[2].params /\ gen[1].params.seed = 0
    /\ gen[1].result.success /\ gen[2].result.success

\* C3: a Reverse instance with known_optimal = k > 0 has total demand area
\* at most k * stock_width * stock_length.
Thm_C3_ReverseArea ==
    \A g \in Gens :
        (gen[g].result.success /\ gen[g].invoked = "Reverse"
            /\ InstanceOf(g).known_optimal > 0)
        => TotalDemandArea(InstanceOf(g))
             <= InstanceOf(g).known_optimal * gen[g].params.stock_width
                    * gen[g].params.stock_length

\* a Reverse instance with a known optimum whose demand needs more than k-1 stocks
Wit_C3_ReverseKnown ==
    /\ gen[1].result.success /\ gen[1].invoked = "Reverse"
    /\ InstanceOf(1).known_optimal > 0
    /\ TotalDemandArea(InstanceOf(1))
         > (InstanceOf(1).known_optimal - 1) * gen[1].params.stock_width
                * gen[1].params.stock_length

\* the declared ranges of the GenerationConfig fields
InDeclaredRange(p) ==
    /\ p.num_types >= 3 /\ p.num_types <= 200
    /\ p.stock_width >= 50 /\ p.stock_length >= 50
    /\ p.min_size_ratio >= 1 /\ p.min_size_ratio <= 50
    /\ p.max_size_ratio >= p.min_size_ratio /\ p.max_size_ratio <= 80
    /\ p.size_cv >= 0 /\ p.size_cv <= 100
    /\ p.min_demand >= 1 /\ p.max_demand >= p.min_demand
    /\ p.demand_skew >= 0 /\ p.demand_skew <= 100
    /\ p.num_clusters >= 0
    /\ p.peak_ratio >= 0 /\ p.peak_ratio <= 100
    /\ p.strategy \in 0..3

\* C4: a configuration with any field outside its declared range makes
\* Generate return success=false with an error message, and no strategy
\* function runs.
Cex_C4_ConfigInvalid ==
    \A g \in Gens : (Called(g) /\ ~InDeclaredRange(gen[g].params)) =>
        /\ ~gen[g].result.success
        /\ gen[g].result.error_message # ""
        /\ gen[g].invoked = "none"

\* C5: known_optimal is positive only after the Reverse strategy with no item
\* appended by the padding loop or by ValidateAndFix; it is -1 whenever such
\* an item was appended, and always for Random, Cluster and Residual.
Thm_C5_KnownOptimal ==
    \A g \in Gens : Called(g) =>
        LET ko == InstanceOf(g).known_optimal
        IN  /\ ko > 0 => /\ gen[g].invoked = "Reverse"
                         /\ gen[g].padded = 0 /\ gen[g].added = 0
            /\ (gen[g].padded > 0 \/ gen[g].added > 0) => ko = -1
            /\ gen[g].invoked \in {"Random", "Cluster", "Residual"} => ko = -1

\* a successful Reverse run whose padding loop appended an item
Wit_C5_Padded ==
    /\ gen[1].result.success /\ gen[1].invoked = "Reverse"
    /\ gen[1].padded > 0 /\ InstanceOf(1).known_optimal = -1

\* the strategy function the claim assigns to a strategy code
StrategyOfCode(code) ==
    CASE code = 0 -> "Reverse"
      [] code = 1 -> "Random"
      [] code = 2 -> "Cluster"
      [] code = 3 -> "Residual"
      [] OTHER -> "Random"

\* C6 as stated: the strategy that runs is determined by the code, and a code
\* outside 0..3 is generated with the Random strategy (configurations whose
\* other fields pass Validate).
Cex_C6_FallbackRandom ==
    \A g \in Gens :
        (Called(g) /\ Validate([gen[g].params EXCEPT !.strategy = 1]))
        => gen[g].invoked = StrategyOfCode(gen[g].params.strategy)

\* C6 amended: 0 runs Reverse, 1 Random, 2 Cluster, 3 Residual; a code
\* outside 0..3 is rejected by Validate, so no strategy runs and Generate
\* returns success=false.
Thm_C6_Dispatch ==
    \A g \in Gens :
        (Called(g) /\ Validate([gen[g].params EXCEPT !.strategy = 1]))
        => IF gen[g].params.strategy \in 0..3
           THEN gen[g].invoked = StrategyOfCode(gen[g].params.strategy)
           ELSE gen[g].invoked = "none" /\ ~gen[g].result.success

\* a call with a strategy code outside 0..3, and one with code 2
Wit_C6_Unrecognized ==
    /\ Called(1) /\ gen[1].params.strategy \notin 0..3
    /\ Validate([gen[1].params EXCEPT !.strategy = 1])
    /\ gen[1].invoked = "none"

\* the band of a score: how many of the breakpoints 0.5, 0.8, 1.2, 1.6, 2.0
\* are at or below it
BandOf(score) == Cardinality({b \in {500, 800, 1200, 1600, 2000} : b <= score})

BandGap == <<"<1%", "1-3%", "3-8%", "8-15%", "15-25%", ">25%">>

BandNodes == <<10, 50, 300, 1000, 5000, 10000>>

OnlyRaised(x) ==
    /\ Len(scoreLog) = 2
    /\ scoreLog[2].f[x] >= scoreLog[1].f[x]
    /\ \A y \in DOMAIN scoreLog[1].f \ {x} : scoreLog[2].f[y] = scoreLog[1].f[y]

WeightFor(x) ==
    CASE x = "avg_size_ratio" -> weights.size_ratio
      [] x = "num_types" -> weights.num_types
      [] x = "avg_demand" -> weights.demand
      [] x = "size_cv" -> weights.cv
      [] x = "width_diversity" -> weights.width_div

RaisingFeatures == {"avg_size_ratio", "num_types", "size_cv", "width_diversity"}

\* C8 as stated: for any fixed weights, raising one of size_ratio, num_types,
\* size_cv, width_diversity never lowers the score.
Cex_C8_AnyWeights ==
    \A x \in RaisingFeatures :
        OnlyRaised(x) => scoreLog[2].score >= scoreLog[1].score

\* C8 amended: with fixed weights in which the weight of the raised feature
\* is not negative, raising one of size_ratio, num_types, size_cv,
\* width_diversity never lowers the score.
Thm_C8_Monotone ==
    \A x \in RaisingFeatures :
        (OnlyRaised(x) /\ WeightFor(x) >= 0)
        => scoreLog[2].score >= scoreLog[1].score

\* two calls that differ in one raised feature, with a strictly higher score
Wit_C8_Raised ==
    \E x \in RaisingFeatures :
        /\ OnlyRaised(x) /\ WeightFor(x) >= 0
        /\ scoreLog[2].f[x] > scoreLog[1].f[x]
        /\ scoreLog[2].score > scoreLog[1].score

\* C9 as stated: for any fixed weights, raising avg_demand over avg_demand >= 0
\* (from 0 included) never raises the score.
Cex_C9_FromZero ==
    (OnlyRaised("avg_demand") /\ scoreLog[1].f.avg_demand >= 0)
    => scoreLog[2].score <= scoreLog[1].score

\* C9 amended: with fixed weights whose demand weight is not negative,
\* raising avg_demand over avg_demand > 0 never raises the score (avg_demand
\* = 0 is the guarded case with contribution 2.0, below that of any
\* avg_demand under 2.5).
Thm_C9_DemandMonotone ==
    (OnlyRaised("avg_demand") /\ scoreLog[1].f.avg_demand > 0
        /\ WeightFor("avg_demand") >= 0)
    => scoreLog[2].score <= scoreLog[1].score

\* two calls that differ in a raised positive avg_demand, with a strictly
\* lower score
Wit_C9_DemandRaised ==
    /\ OnlyRaised("avg_demand") /\ scoreLog[1].f.avg_demand > 0
    /\ WeightFor("avg_demand") >= 0
    /\ scoreLog[2].f.avg_demand > scoreLog[1].f.avg_demand
    /\ scoreLog[2].score < scoreLog[1].score

\* the weight tuples of the grid, on exact values
GridSet ==
    {t \in [size_ratio : {20, 25, 30, 35, 40, 45, 50},
            num_types : {15, 20, 25, 30, 35, 40},
            demand : {10, 15, 20, 25, 30},
            cv : {5, 10, 15, 20, 25, 30},
            width_div : {5}] :
        t.size_ratio + t.num_types + t.demand + t.cv + t.width_div = 100}

\* C10: Calibrate never returns a negative improvement, and the prediction
\* RMSE under the weights it leaves is not larger than under the weights it
\* found.
Thm_C10_NoRegression ==
    estOp.op = "Calibrate" =>
        /\ estOp.ret >= 0
        /\ GetPredictionRMSE(weights, calibration_data)
             <= GetPredictionRMSE(estOp.w_before, calibration_data)

\* a calibration over at least 5 points that kept weights no grid tuple beats
Wit_C10_KeptBaseline ==
    /\ estOp.op = "Calibrate" /\ Len(calibration_data) >= 5
    /\ estOp.ret = 0 /\ weights = estOp.w_before
    /\ \A t \in GridSet :
          GetPredictionRMSE(t, calibration_data)
            > GetPredictionRMSE(weights, calibration_data)

\* the declared bands of the five weights (hundredths), which sum to 1.0
InBands(w) ==
    /\ w.size_ratio >= 20 /\ w.size_ratio <= 50
    /\ w.num_types >= 15 /\ w.num_types <= 40
    /\ w.demand >= 10 /\ w.demand <= 30
    /\ w.cv >= 5 /\ w.cv <= 30
    /\ w.width_div = 100 - (w.size_ratio + w.num_types + w.demand + w.cv)
    /\ w.size_ratio + w.num_types + w.demand + w.cv + w.width_div = 100

\* C11 as stated: after any call to Calibrate the five weights sum to 1.0
\* and each lies within its declared band.
Cex_C11_AnyCall ==
    estOp.op = "Calibrate" => InBands(weights)

\* C11 amended: after a call to Calibrate the weights are either the ones
\* the estimator had before the call, or they sum to 1.0 with each in its
\* band; they are the latter whenever the call returned a positive
\* improvement or the weights before the call were already so.
Thm_C11_BandsOrKept ==
    estOp.op = "Calibrate" =>
        /\ weights = estOp.w_before \/ InBands(weights)
        /\ estOp.ret > 0 => InBands(weights)
        /\ InBands(estOp.w_before) => InBands(weights)

\* a calibration that replaced weights outside the bands by a grid tuple
Wit_C11_Adopted ==
    /\ estOp.op = "Calibrate" /\ estOp.ret > 0
    /\ ~InBands(estOp.w_before) /\ weights # estOp.w_before
    /\ InBands(weights)

\* C12: with fewer than 5 calibration points a call to Calibrate returns 0
\* and changes neither the five weights nor the calibration dataset.
Thm_C12_TooFewPoints ==
    [][(estOp'.op = "Calibrate" /\ Len(calibration_data) < 5)
        => /\ estOp'.ret = 0
           /\ weights' = weights
           /\ calibration_data' = calibration_data]_vars

\* a call with 1 to 4 points that left weights outside the bands in place
Wit_C12_NoOp ==
    /\ estOp.op = "Calibrate" /\ estOp.ret = 0
    /\ Len(calibration_data) \in 1..4
    /\ weights = LowWeights /\ estOp.w_before = LowWeights


\* a load of the file SaveCalibration wrote, as the first call on a newly
\* constructed estimator
ReloadedFresh ==
    /\ estOp.op = "LoadCalibration"
    /\ estOp.fresh
    /\ estOp.opened
    /\ file.saved

\* C13: SaveCalibration followed by LoadCalibration of the written file
\* into a freshly constructed estimator gives that estimator the weights of
\* the estimator that saved, so that Estimate returns the same for both on
\* every instance.
Cex_C13_RoundTrip ==
    ReloadedFresh =>
        /\ ~estOp.raised
        /\ estOp.ret = TRUE
        /\ weights = file.writer
        /\ \A inst \in InstanceChoices :
              Estimate(weights, inst) = Estimate(file.writer, inst)

\* C14: LoadCalibration on a file that can be opened returns true without
\* raising an error, whatever the lines are.
Cex_C14_AnyLines ==
    (estOp.op = "LoadCalibration" /\ estOp.opened) =>
        /\ ~estOp.raised
        /\ estOp.ret = TRUE

\* C15: when the calibration file cannot be opened, SaveCalibration and
\* LoadCalibration return false and raise nothing, and LoadCalibration
\* leaves the five weights as they were.
Thm_C15_NotOpened ==
    (estOp.op \in {"SaveCalibration", "LoadCalibration"} /\ ~estOp.opened) =>
        /\ estOp.ret = FALSE
        /\ ~estOp.raised
        /\ estOp.op = "LoadCalibration" => weights = estOp.w_before

Wit_C15_LoadNotOpened ==
    /\ estOp.op = "LoadCalibration"
    /\ ~estOp.opened
    /\ estOp.ret = FALSE
    /\ file.exists
    /\ weights = NegativeWeights


\* the configuration is nowhere lower in b than in a, with the demands
\* nowhere higher
NotEasier(a, b) ==
    /\ a.num_types <= b.num_types
    /\ a.min_size_ratio <= b.min_size_ratio
    /\ a.max_size_ratio <= b.max_size_ratio
    /\ a.size_cv <= b.size_cv
    /\ a.demand_skew <= b.demand_skew
    /\ a.min_demand >= b.min_demand
    /\ a.max_demand >= b.max_demand

NotEasierDerived(a, b) ==
    /\ a.NumItemTypes <= b.NumItemTypes
    /\ a.MinSizeRatio <= b.MinSizeRatio
    /\ a.MaxSizeRatio <= b.MaxSizeRatio
    /\ a.SizeSimilarity <= b.SizeSimilarity
    /\ a.MinDemand >= b.MinDemand
    /\ a.MaxDemand >= b.MaxDemand

\* C16: the legacy mapping is monotone in the difficulty d, clamped to
\* [0,1]: num_types, the size ratios, size_cv and demand_skew never
\* decrease and the demands never increase as d grows; prime_offset is set
\* exactly for d > 0.5; the strategy is Reverse for d < 0.3, Random for
\* 0.3 <= d < 0.8 and Residual for d >= 0.8.
Thm_C16_Monotone ==
    /\ \A i \in 1..Len(legacy) :
          LET d == Clamp(legacy[i].d, 0, 1000)
              params == legacy[i].params
              derived == legacy[i].derived
              name == IF d < 300 THEN "Reverse"
                      ELSE IF d < 800 THEN "Random" ELSE "Residual"
          IN  /\ params.prime_offset = (d > 500)
              /\ derived.UsePrimeOffset = (d > 500)
              /\ StrategyOfCode(params.strategy) = name
              /\ derived.Strategy = (IF d < 300 THEN 0 ELSE IF d < 800 THEN 1 ELSE 2)
              /\ params = LegacyParams(d, params.stock_width, params.stock_length)
    /\ (Len(legacy) = 2 /\ legacy[1].d <= legacy[2].d) =>
          /\ NotEasier(legacy[1].params, legacy[2].params)
          /\ NotEasierDerived(legacy[1].derived, legacy[2].derived)

Wit_C16_AcrossThresholds ==
    /\ Len(legacy) = 2
    /\ legacy[1].d = 500 /\ legacy[2].d = 800
    /\ ~legacy[1].params.prime_offset /\ legacy[2].params.prime_offset
    /\ legacy[1].params.strategy = 1 /\ legacy[2].params.strategy = 3
    /\ legacy[1].params.num_types < legacy[2].params.num_types
    /\ legacy[1].params.max_demand > legacy[2].params.max_demand


\* C17: every result of Generate has one of two shapes: success with an
\* empty error message, the validated instance and its estimate, or failure
\* with a non-empty error message and an instance without items.
Thm_C17_TwoShapes ==
    \A g \in Gens : Called(g) =>
        LET r == gen[g].result
        IN  \/ /\ r.success
               /\ r.error_message = ""
               /\ IsValid(r.instance)
               /\ r.estimate = Estimate(DefaultWeights, r.instance)
            \/ /\ ~r.success
               /\ r.error_message # ""
               /\ r.instance.items = <<>>

Wit_C17_Failed ==
    /\ Called(1)
    /\ ~gen[1].result.success
    /\ gen[1].result.error_message = "Invalid parameters"
    /\ gen[1].invoked = "none"
    /\ InstanceOf(1).items = <<>>


\* C18: when the instance's avg_demand is 0, Estimate sets
\* demand_contribution to 2.0 and the score is the weighted sum of the five
\* contributions with that value.
Thm_C18_ZeroDemand ==
    (estOp.op = "Estimate" /\ AvgDemand(probe.inst) = 0) =>
        /\ probe.est.demand_contribution = 2000
        /\ probe.est.score =
              WeightedSum(weights, probe.est.size_contribution,
                          probe.est.types_contribution, 2000,
                          probe.est.cv_contribution,
                          probe.est.width_div_contribution)

Wit_C18_NobodyDemands ==
    /\ estOp.op = "Estimate"
    /\ Len(probe.inst.items) = 2
    /\ AvgDemand(probe.inst) = 0
    /\ weights = NegativeWeights
    /\ probe.est.demand_contribution = 2000
    /\ probe.est.score # 0


\* C19: in every instance returned with success=true the item at position
\* i (counted from 0) has id i, also when a strategy skipped candidates or
\* ValidateAndFix removed or added items.
Thm_C19_DenseIds ==
    \A g \in Gens : gen[g].result.success =>
        \A i \in 1..Len(InstanceOf(g).items) : InstanceOf(g).items[i].id = i - 1

Wit_C19_AfterRepair ==
    /\ gen[1].result.success
    /\ gen[1].removed > 0
    /\ gen[1].added > 0
    /\ \A i \in 1..Len(InstanceOf(1).items) : InstanceOf(1).items[i].id = i - 1


\* C20: every item of every instance returned by Generate has
\* length >= width, whichever strategy ran and whether the item came from
\* the strategy, the Reverse padding loop or the repair loop.
Cex_C20_LengthAtLeastWidth ==
    \A g \in Gens : gen[g].result.success =>
        \A i \in 1..Len(InstanceOf(g).items) :
            InstanceOf(g).items[i].length >= InstanceOf(g).items[i].width


\* C21: for every configuration passing Validate, stock_width >
\* stock_length included and prime_offset on or off, GenerateItemSize
\* returns a width in 1..stock_width and a length in 1..stock_length.
Cex_C21_WithinStock ==
    sample.fn = "GenerateItemSize" =>
        /\ Validate(sample.params)
        /\ 1 <= sample.w /\ sample.w <= sample.params.stock_width
        /\ 1 <= sample.l /\ sample.l <= sample.params.stock_length


\* C22: every item produced by the Residual strategy has a demand of at
\* most half the configured maximum demand (instances to which
\* ValidateAndFix appended nothing, so that every item is the strategy's).
Cex_C22_HalfDemand ==
    \A g \in Gens :
        (gen[g].result.success /\ gen[g].invoked = "Residual" /\ gen[g].added = 0)
        => \A i \in 1..Len(InstanceOf(g).items) :
              2 * InstanceOf(g).items[i].demand <= gen[g].params.max_demand


\* the number of sizes sampled before the first unused one, that one
\* included; max_attempts + 1 when every sampled size is used
FirstUnused(used, sizes) ==
    IF \E i \in 1..max_attempts : sizes[i] \notin used
    THEN CHOOSE i \in 1..max_attempts :
            /\ sizes[i] \notin used
            /\ \A j \in 1..(i - 1) : sizes[j] \in used
    ELSE max_attempts + 1

\* C23 as stated: for a type of the Random strategy at most 50 sizes are
\* sampled, stopping at the first unused one; the type is skipped only if
\* every sampled size was a used one, and otherwise an item with the
\* unused size is added.
Cex_C23_SkipOnlyIfAllCollide ==
    sample.fn = "RandomType" =>
        LET first == FirstUnused(sample.used, sample.sizes)
        IN  /\ sample.attempts = Min(first, max_attempts)
            /\ ~sample.added <=> first > max_attempts
            /\ sample.added =>
                  /\ <<sample.w, sample.l>> = sample.sizes[first]
                  /\ <<sample.w, sample.l>> \notin sample.used

\* C23 amended: at most 50 sizes are sampled, stopping at the first unused
\* one; the type is skipped exactly when the first 49 sampled sizes were
\* used ones (the 50th sample is dropped whether it is used or not), and
\* otherwise an item with the first unused size is added.
Thm_C23_SkipAfter49 ==
    sample.fn = "RandomType" =>
        LET first == FirstUnused(sample.used, sample.sizes)
        IN  /\ sample.attempts = Min(first, max_attempts)
            /\ ~sample.added <=> first >= max_attempts
            /\ sample.added =>
                  /\ <<sample.w, sample.l>> = sample.sizes[first]
                  /\ <<sample.w, sample.l>> \notin sample.used
                  /\ sample.used_after = sample.used \cup {sample.sizes[first]}
            /\ ~sample.added => sample.used_after = sample.used

Wit_C23_FiftiethUnused ==
    /\ sample.fn = "RandomType"
    /\ sample.attempts = max_attempts
    /\ <<sample.w, sample.l>> \notin sample.used
    /\ \A i \in 1..(max_attempts - 1) : sample.sizes[i] \in sample.used
    /\ ~sample.added


\* C24: after Calibrate ran with at least 5 points, the weights are a tuple
\* of minimum prediction RMSE among the weights before the call and all
\* grid tuples; the weights before the call are kept when no grid tuple is
\* strictly better; the returned value is the RMSE under the weights before
\* the call minus the RMSE under the final weights.
Cex_C24_GridMinimum ==
    (estOp.op = "Calibrate" /\ Len(calibration_data) >= 5) =>
        LET RmseOf(t) == GetPredictionRMSE(t, calibration_data)
            Final(rmse) ==
                /\ \A t \in GridSet \cup {estOp.w_before} : rmse <= RmseOf(t)
                /\ estOp.ret = RmseOf(estOp.w_before) - rmse
        IN  /\ weights \in GridSet \cup {estOp.w_before}
            /\ Final(RmseOf(weights))
            /\ (\A t \in GridSet : RmseOf(t) >= RmseOf(estOp.w_before))
                  => weights = estOp.w_before

\* C25: after every Estimate call utilization_lb lies between 0 and 1
Cex_C25_UtilizationInUnitInterval ==
    estOp.op = "Estimate" =>
        /\ probe.est.utilization_lb >= 0
        /\ probe.est.utilization_lb <= 1000

\* C26: in any sequence of estimator operations, Estimate,
\* AddCalibrationPoint, GetPredictionRMSE and SaveCalibration leave the five
\* weights as they were; Estimate and Calibrate leave the dataset as it was;
\* AddCalibrationPoint appends exactly one point; the number of points never
\* decreases
FrameEffects ==
    /\ estOp'.op \in {"Estimate", "AddCalibrationPoint", "GetPredictionRMSE",
                      "SaveCalibration"} => weights' = weights
    /\ estOp'.op \in {"Estimate", "Calibrate"} =>
           calibration_data' = calibration_data
    /\ estOp'.op = "AddCalibrationPoint" =>
           /\ Len(calibration_data') = Len(calibration_data) + 1
           /\ SubSeq(calibration_data', 1, Len(calibration_data)) = calibration_data
    /\ Len(calibration_data') >= Len(calibration_data)

Thm_C26_FrameEffects == [][FrameEffects]_vars

\* Calibrate has changed the weights of an estimator to which points were
\* added one by one, after an Estimate call and a SaveCalibration call
Wit_C26_CalibrateAfterAdds ==
    /\ estOp.op = "Calibrate"
    /\ weights # estOp.w_before
    /\ Len(calibration_data) = 5
    /\ file.exists
    /\ probe.score >= 0

\* C30: a Calibrate call that directly follows a Calibrate call on the same
\* dataset returns 0 and leaves the five weights as the first call set them
CalibrateTwice ==
    (estOp.op = "Calibrate" /\ estOp'.op = "Calibrate") =>
        /\ estOp'.ret = 0
        /\ weights' = weights

Thm_C30_CalibrateIdempotent == [][CalibrateTwice]_vars

\* a Calibrate call has found nothing to improve on weights that an earlier
\* Calibrate call took from the grid, with a positive RMSE left
Wit_C30_SecondCalibrate ==
    /\ estOp.op = "Calibrate"
    /\ Len(calibration_data) >= 5
    /\ estOp.ret = 0
    /\ estOp.w_before = weights
    /\ weights \notin (WeightChoices \cup {DefaultWeights})
    /\ GetPredictionRMSE(weights, calibration_data) > 0

\* C27: every Generate call with a configuration that passes Validate
\* returns success = true
Cex_C27_ValidatedSucceeds ==
    \A g \in Gens :
        (Called(g) /\ Validate(gen[g].params)) => gen[g].result.success

\* the stream state from which a call Generate(params) samples when the
\* stream is at rng before the call
StartOf(params, rng) == IF params.seed # 0 THEN RngSeed(params.seed) ELSE rng

\* C28: a call Generate(params) with params.seed # 0 samples from the stream
\* seeded with params.seed, so that a call that follows a call with the same
\* params on the same generator returns the same result; with params.seed = 0
\* the call samples from the state the stream was left in
Reseeding ==
    \A g \in Gens :
        (gen'[g].calls = gen[g].calls + 1 /\ Validate(gen'[g].params)) =>
            LET params == gen'[g].params
                Repaired(vf) ==
                    /\ gen'[g].rng = vf.rng
                    /\ gen'[g].result.success = vf.ok
                    /\ vf.ok => gen'[g].result.instance = vf.inst
                Sampled(s) ==
                    Repaired(ValidateAndFix(s.inst, params, s.rng, primeFirst))
            IN  /\ Sampled(RunStrategy(params, StartOf(params, gen[g].rng),
                                       primeFirst))
                /\ (Called(g) /\ params.seed # 0 /\ gen[g].params = params) =>
                       gen'[g].result = gen[g].result

Thm_C28_Reseeding == [][Reseeding]_vars

\* a second call with the same non-zero seed has returned an instance, from
\* a generator that was constructed with another seed
Wit_C28_SecondCallSeeded ==
    /\ gen[1].calls = 2
    /\ gen[1].params.seed # 0
    /\ gen[1].ctorSeed # gen[1].params.seed
    /\ gen[1].result.success

\* what one step of the two loops of GenerateReverse does to the remaining
\* width and length
PackingStep ==
    (sample.fn = "GenerateReverse" /\ sample'.fn = "GenerateReverse") =>
        LET rw == sample.remaining_width
            rl == sample.remaining_length
            bs == sample.base_sizes
        IN  /\ sample'.cut = "strip" =>
                   /\ sample'.strip_width >= 1
                   /\ sample'.strip_width <= rw
                   /\ sample'.remaining_width = rw
                   /\ \E i \in 1..Len(bs) : bs[i][1] = sample'.strip_width
            /\ sample'.cut = "item" =>
                   /\ \E i \in 1..Len(bs) :
                         /\ bs[i][1] = sample.strip_width
                         /\ bs[i][2] >= 1
                         /\ bs[i][2] <= rl
                         /\ sample'.remaining_length = rl - bs[i][2]
                   /\ sample'.remaining_width = rw
                   /\ sample'.strip_width = sample.strip_width
            /\ sample'.cut = "strip done" =>
                   /\ sample.strip_width >= 1
                   /\ sample.strip_width <= rw
                   /\ sample'.remaining_width = rw - sample.strip_width
            /\ sample'.cut \in {"stock done", "no strip fits"} =>
                   /\ sample'.s = sample.s + 1
                   /\ sample'.dm = sample.dm

PackingInRange ==
    sample.fn = "GenerateReverse" =>
        /\ sample.remaining_width >= 0
        /\ sample.remaining_length >= 0

\* the call has left the loop over the stocks (line 282)
PackingDone == sample.fn = "GenerateReverse" /\ sample.pc \in {"Items", "done"}

\* C29: for every configuration that passes Validate the two-stage packing of
\* the Reverse strategy terminates; every Stage 1 iteration stops or takes a
\* strip width between 1 and remaining_width off remaining_width; every
\* Stage 2 iteration stops or takes the length, between 1 and
\* remaining_length, of an item as wide as the strip off remaining_length;
\* remaining_width and remaining_length are never negative
Thm_C29_PackingTerminates ==
    /\ [][PackingStep]_vars
    /\ []PackingInRange
    /\ (sample.fn = "GenerateReverse") ~> PackingDone

\* a strip has been taken off the width of a stock after items were cut
\* from it, on a stock wider than long, with width left for another strip
Wit_C29_StripCut ==
    /\ sample.fn = "GenerateReverse"
    /\ sample.cut = "strip done"
    /\ sample.remaining_length < sample.params.stock_length
    /\ sample.remaining_width > 0
    /\ sample.params.stock_width > sample.params.stock_length

====
